---- MODULE Spec2Model ----
(***************************************************************************)
(* Job orchestration of the coverage improver: the ImprovementJob entity,  *)
(* the improve queue and its consumer, the ImproveCoverageUseCase run and  *)
(* the generate -> validate -> repair loop of GeminiGeneratorService.      *)
(***************************************************************************)
EXTENDS Integers, Sequences, FiniteSets, TLC

(* ---------------------------------------------------------------------- *)
(* Bounds of the model                                                     *)
(* ---------------------------------------------------------------------- *)
MaxJobs == 2

MaxClock == 1

MaxDeliveries == 2

MaxRequests == 3

MaxChunks == 2

(* ---------------------------------------------------------------------- *)
(* Program constants                                                       *)
(* ---------------------------------------------------------------------- *)
\* a consumer registered with two slots
Concurrency_Two == 1 + 1

Concurrency == 1

Attempts == 2

DefaultTargetCoverage == 80

MAX_ATTEMPTS == 3

ScanConcurrency == 2

JobIds == 1..MaxJobs

RepoUrls == {"https://github.com/o/r"}

FilePaths == {"src/svc.ts"}

\* JavaScript's undefined and the empty string, the two falsy field values
Undefined == "<undefined>"

EmptyString == ""

Truthy(v) == v # Undefined /\ v # EmptyString

QUEUED == "QUEUED"

CLONING == "CLONING"

ANALYZING == "ANALYZING"

GENERATING == "GENERATING"

PUSHING == "PUSHING"

PR_CREATED == "PR_CREATED"

FAILED == "FAILED"

JobStatus == {QUEUED, CLONING, ANALYZING, GENERATING, PUSHING, PR_CREATED, FAILED}

ACTIVE_JOB_STATUSES == {CLONING, ANALYZING, GENERATING, PUSHING}

TerminalStatuses == {PR_CREATED, FAILED}

VARIABLES
  now,            \* the wall clock read by new Date(), in milliseconds
  jobStore,       \* JobStore rows: job id -> persisted ImprovementJob
  queue,          \* improve queue: job ids waiting for the consumer
  deliveries,     \* job id -> how often the broker handed it to the consumer
  pc,             \* job id -> position of the consumer's run for that job
  mem,            \* job id -> the run's in-memory ImprovementJob
  localRepoPath,  \* job id -> the clone path recorded by the run (0: none)
  thrown,         \* job id -> message of the error the run is unwinding with
  events,         \* job id -> the run's saves and collaborator calls, in order
  cloneDirs,      \* clone directories present on disk
  ent,            \* a free-standing ImprovementJob driven through its methods
  gen,            \* one generateTest call: its arguments, locals and outcome
  files,          \* generateTest's files in the clone: path -> content
  val,            \* one validateTest call: its inputs, position and result
  repoStore,      \* tracked_repositories rows: id -> TrackedRepository
  scanKeys,       \* job ids the scan queue knows
  scanQueue,      \* scan queue: the scan jobs waiting for the consumer
  scan,           \* scan job -> the consumer's run of it
  req,            \* API request -> the command, its position and outcome
  cmd,            \* one runCommand call: the child, the timer and the promise
  cov,            \* one scanCoverage call: its inputs, position and result
  host            \* one RepositoryHost call that takes a repository URL

vars == <<now, jobStore, queue, deliveries, pc, mem, localRepoPath, thrown,
          events, cloneDirs, ent, gen, files, val, repoStore, scanKeys,
          scanQueue, scan, req, cmd, cov, host>>

genVars == <<gen, files>>

valVars == <<val>>

repoVars == <<repoStore, scanKeys, scanQueue, scan, req>>

toolVars == <<cmd, cov, host>>

pipelineVars == <<jobStore, queue, deliveries, pc, mem, localRepoPath, thrown,
                  events, cloneDirs>>

(* ---------------------------------------------------------------------- *)
(* ImprovementJob                                                          *)
(* ---------------------------------------------------------------------- *)
\* an updateStatus that keeps the error message and not the FAILED status
updateStatus_NeverFails(job, status, errorMessage, prLink, clock) ==
  [job EXCEPT !.status = IF status = "FAILED" THEN @ ELSE status,
              !.errorMessage = IF Truthy(errorMessage) THEN errorMessage ELSE @,
              !.prLink = IF Truthy(prLink) THEN prLink ELSE @,
              !.updatedAt = clock]

\* an updateStatus that assigns both optional arguments unconditionally
updateStatus_Overwrites(job, status, errorMessage, prLink, clock) ==
  [job EXCEPT !.status = status,
              !.errorMessage = errorMessage,
              !.prLink = prLink,
              !.updatedAt = clock]

\* an updateStatus that timestamps the job and leaves its status alone
updateStatus_DropsStatus(job, status, errorMessage, prLink, clock) ==
  [job EXCEPT !.errorMessage = IF Truthy(errorMessage) THEN errorMessage ELSE @,
              !.prLink = IF Truthy(prLink) THEN prLink ELSE @,
              !.updatedAt = clock]

\* an updateStatus that never records the error message
updateStatus_DropsMessage(job, status, errorMessage, prLink, clock) ==
  [job EXCEPT !.status = status,
              !.prLink = IF Truthy(prLink) THEN prLink ELSE @,
              !.updatedAt = clock]

create(id, repositoryUrl, filePath, clock) ==
  [id |-> id, repositoryUrl |-> repositoryUrl, filePath |-> filePath,
   targetCoverage |-> DefaultTargetCoverage, status |-> QUEUED,
   prLink |-> Undefined, errorMessage |-> Undefined,
   createdAt |-> clock, updatedAt |-> clock]

updateStatus(job, status, errorMessage, prLink, clock) ==
  [job EXCEPT !.status = status,
              !.errorMessage = IF Truthy(errorMessage) THEN errorMessage ELSE @,
              !.prLink = IF Truthy(prLink) THEN prLink ELSE @,
              !.updatedAt = clock]

BlankJob == create(0, EmptyString, EmptyString, 0)

(* ---------------------------------------------------------------------- *)
(* JobStore                                                                *)
(* ---------------------------------------------------------------------- *)
\* a save that inserts new rows and never updates an existing one
save_InsertOnly(store, job) ==
  [k \in (DOMAIN store) \cup {job.id} |->
     IF k \in DOMAIN store THEN store[k] ELSE job]

save(store, job) ==
  [k \in (DOMAIN store) \cup {job.id} |-> IF k = job.id THEN job ELSE store[k]]

\* a lookup that answers an unknown id with a fresh row instead of null
findById_NeverNull(store, id) ==
  IF id \in DOMAIN store THEN store[id]
                         ELSE create(id, EmptyString, EmptyString, 0)

\* findOne({ where: { id } }); null (the blank job) when no row has the id
findById(store, id) == IF id \in DOMAIN store THEN store[id] ELSE BlankJob

(* ---------------------------------------------------------------------- *)
(* GitHubService (RepositoryHost)                                          *)
(* ---------------------------------------------------------------------- *)
\* GITHUB_TOKEN is required by validateEnv, so a running worker has one
TokenSet == TRUE

\* what repos.get reports for the token: a permission level, or a 403/404
AccessLevels == {"admin", "push", "pull", "error"}

checkPermissions(token, access) ==
  IF ~token THEN TRUE ELSE access \in {"admin", "push"}

\* localRepoPath before a clone returned: the empty path
NoPath == <<EmptyString, 0>>

\* the directory mkdtemp makes for a run of job j; a run owns at most one
TmpDir(j) == <<"/app/clones/coverage-improver-", j>>

\* any directory under the clones base that no run has a path to any more
StrayDir == <<"/app/clones/coverage-improver-", 0>>

\* a cloneRepository that resolves with the empty path when git clone fails
cloneRepository_ResolvesOnFailure(dirs, dir, ok) ==
  [dirs |-> dirs \cup {IF ok THEN dir ELSE StrayDir},
   path |-> IF ok THEN dir ELSE NoPath,
   threw |-> FALSE]

\* cloneRepository: mkdtemp first, then git clone, which may reject and
\* then leaves the directory behind
cloneRepository(dirs, dir, ok) ==
  [dirs |-> dirs \cup {IF ok THEN dir ELSE StrayDir},
   path |-> IF ok THEN dir ELSE NoPath,
   threw |-> ~ok]

\* cleanupLocalRepository: access + rm, every failure swallowed
cleanupLocalRepository(dirs, path, rmOk) ==
  IF path \in dirs
    THEN IF rmOk THEN dirs \ {path} ELSE (dirs \ {path}) \cup {StrayDir}
    ELSE dirs

MockPrLink == "https://github.com/o/r/pull/mock-123"

HtmlUrl == "https://github.com/o/r/pull/1"

createPullRequest(token) == IF ~token THEN MockPrLink ELSE HtmlUrl

MsgPermissions == "Insufficient permissions"

\* the message of an error the provider or git raised
MsgHost == "Git clone failed"

MsgSourceMissing == "File src/svc.ts not found in repository"

MsgGeneration == "Failed to generate a valid test"

(* ---------------------------------------------------------------------- *)
(* GeminiGeneratorService.generateTest                                     *)
(* ---------------------------------------------------------------------- *)
\* a repo-relative path: <<directory parts, file stem, extension>>
SourceSvc == <<"src", "svc", ".ts">>

SourceIndex == <<"src", "index", ".ts">>

SourceDto == <<"dto", "svc", ".ts">>

GenSources == {SourceSvc, SourceIndex, SourceDto}

SKIP_FILES == {<<"app", ".ts">>, <<"main", ".ts">>, <<"index", ".ts">>,
               <<"jest.config", ".ts">>}

SKIP_FOLDERS == {"interfaces", "dto", "entities", "migrations", "node_modules",
                 "dist", "coverage", "types"}

SKIP_EXTENSIONS == {".interface.ts", ".d.ts", ".module.ts", ".entity.ts",
                    ".dto.ts", ".spec.ts", ".test.ts"}

shouldSkipFile(path) ==
  \/ path[1] \in SKIP_FOLDERS
  \/ <<path[2], path[3]>> \in SKIP_FILES
  \/ path[3] \in SKIP_EXTENSIONS

\* the suffixes a target test path ends in
TestSuffixes == {".spec.ts", ".test.ts"}

VerificationSuffix == ".verification.test.ts"

\* fullTestFilePath.replace(/\.(spec|test)\.ts$/, '.verification.test.ts')
tempTestFilePath(suffix) ==
  IF suffix \in {".spec.ts", ".test.ts"} THEN VerificationSuffix ELSE suffix

\* the files of the clone generateTest touches, named by their suffix
\* the endings of the target test paths a caller can hand to generateTest:
\* the two the pattern knows and one it does not match
TargetSuffixes == TestSuffixes \cup {".test.tsx"}

GenPaths == TargetSuffixes \cup {VerificationSuffix, ".gemini-prompt.txt",
                                 ".gemini/system.md"}

Absent == "<absent>"

OldTest == "the test file of the repository"

\* the code the CLI returned in attempt n, after cleanResponse
GeneratedCode(n) ==
  CASE n = 1 -> "generated code of attempt 1"
    [] n = 2 -> "generated code of attempt 2"
    [] n = 3 -> "generated code of attempt 3"
    [] OTHER -> "generated code of a later attempt"

\* what the sandboxed CLI call yields
CliOutcomes == {"code", "non-zero exit", "unparseable JSON", "error", "empty"}

MsgCli(outcome) == <<"Isolated AI CLI execution failed:", outcome>>

MsgEmpty == <<"AI CLI returned empty or unparseable text.">>

MsgRead == <<"ENOENT">>

\* the error texts validateTest can return with success = false
ValidatorErrors == {"error TS2300", "Coverage below target"}

MsgExhausted(source, attempts, lastError) ==
  <<"Failed to generate a valid test for", source, "after", attempts,
    "attempts. Last error:", lastError>>

NoError == <<>>

\* a rename that leaves the old name in place
rename_Copying(fs, from, to) == [fs EXCEPT ![to] = fs[from]]

\* fs.rename(from, to): the file moves; onto its own name it stays
rename(fs, from, to) ==
  IF from = to THEN fs ELSE [fs EXCEPT ![to] = fs[from], ![from] = Absent]

\* a prompt that never shows the last error
errorSection_Omitted(lastError) == <<>>

\* buildPrompt: the error section is there when lastError is truthy
errorSection(lastError) ==
  IF Truthy(lastError)
    THEN <<"LAST VALIDATION ATTEMPT FAILED WITH ERROR:", lastError>>
    ELSE <<>>

\* a loop that runs one attempt more
LoopCondition_OneMore(attempt) == attempt <= MAX_ATTEMPTS + 1

\* a loop that stops one attempt early
LoopCondition_OffByOne(attempt) == attempt < MAX_ATTEMPTS

\* for (let attempt = 1; attempt <= MAX_ATTEMPTS; attempt++)
LoopCondition(attempt) == attempt <= MAX_ATTEMPTS

\* the state of a call generateTest(source, test path, repo, target)
GenCall(source, suffix, before) ==
  [pc |-> "start", source |-> source, suffix |-> suffix, before |-> before,
   attempt |-> 1,
   currentError |-> EmptyString, cliCalls |-> 0, validations |-> <<>>,
   prompts |-> <<>>, code |-> Absent, error |-> NoError]

(* ---------------------------------------------------------------------- *)
(* TestValidatorService.validateTest                                       *)
(* ---------------------------------------------------------------------- *)
IgnorableCodes ==
  {"TS2307", "TS2305", "TS2339", "TS2503", "TS2345", "TS2322", "TS2304"}

\* a line of the compiler's output: the diagnostic code after "error " (the
\* empty string on a line that is no diagnostic) and the code-like strings
\* the rest of the line contains (file name, quoted identifiers)
TscLine(code, quoted) == [code |-> code, quoted |-> quoted]

TscLines ==
  {TscLine("TS2300", {}), TscLine("TS2300", {"TS2304"}),
   TscLine("TS2307", {}), TscLine("TS1005", {}), TscLine(EmptyString, {})}

\* line.includes(text)
LineIncludes(line, text) == line.code = text \/ text \in line.quoted

\* line.includes('error TS')
isError(line) == line.code # EmptyString

\* ignorableCodes.some(code => line.includes(code))
isIgnorable(line) == \E code \in IgnorableCodes : LineIncludes(line, code)

isFatalTscError(output) ==
  \E line \in output : isError(line) /\ ~isIgnorable(line)

\* what runSandboxedCommand resolves with for tsc: exit code 0 or not, and
\* the lines printed; tsc exits non-zero when it prints a diagnostic
TscResults ==
  {r \in [success : BOOLEAN, output : SUBSET TscLines] :
     /\ Cardinality(r.output) <= 2
     /\ (\E line \in r.output : isError(line)) => ~r.success}

QuietTsc == [success |-> TRUE, output |-> {}]

\* the coverage entry of the source file: null, an object without s, s with
\* a published pct, or s as a map of statement hits
NoStatementMap == [kind |-> "no s", pct |-> 0, covered |-> 0, total |-> 0]

CoverageStats ==
  {[kind |-> "null", pct |-> 0, covered |-> 0, total |-> 0], NoStatementMap}
    \cup {[kind |-> "pct", pct |-> p, covered |-> 0, total |-> 0] :
            p \in {0, 79, 80, 100}}
    \cup {[kind |-> "hits", pct |-> 0, covered |-> c, total |-> t] :
            c \in {0, 1, 4}, t \in {0, 4, 5}}

\* what the runner printed: nothing JSON ("noise"), JSON without a
\* coverageMap ("json"), text holding "coverageMap" that does not parse
\* ("cut"), or JSON with a coverageMap ("map")
JestResults ==
  {r \in [success : BOOLEAN, payload : {"noise", "json", "cut", "map"},
          keyFound : BOOLEAN, stats : CoverageStats] :
     /\ r.payload # "map" => (~r.keyFound /\ r.stats = NoStatementMap)
     /\ ~r.keyFound => r.stats = NoStatementMap
     /\ (r.stats.kind = "hits" => r.stats.covered <= r.stats.total)}

QuietJest ==
  [success |-> TRUE, payload |-> "noise", keyFound |-> FALSE,
   stats |-> NoStatementMap]

\* a percentage as the fraction n / d
Fraction(n, d) == [n |-> n, d |-> d]

Zero == Fraction(0, 1)

\* pct of the entry: the published field, else covered / total * 100
Percentage(stats) ==
  CASE stats.kind = "pct" -> Fraction(stats.pct, 1)
    [] stats.kind = "hits" /\ stats.total > 0 ->
         Fraction(stats.covered * 100, stats.total)
    [] OTHER -> Zero

\* a comparison that is never true
BelowTarget_Never(pct, targetCoverage) == pct.n < 0 /\ targetCoverage < 0

\* pct < targetCoverage
BelowTarget(pct, targetCoverage) == pct.n < targetCoverage * pct.d

ValidationResult(success, error, coverage) ==
  [success |-> success, error |-> error, coverage |-> coverage]

\* Step C: the coverage verification of a runner output that is kept
CoverageVerification(jest, targetCoverage) ==
  IF jest.payload \notin {"json", "map"}
    THEN ValidationResult(FALSE, "VALIDATION ERROR", Zero)
  ELSE IF ~jest.keyFound
    THEN ValidationResult(FALSE, "COVERAGE ERROR", Zero)
  ELSE IF jest.stats.kind = "null"
    THEN ValidationResult(FALSE, "VALIDATION ERROR", Zero)
  ELSE IF BelowTarget(Percentage(jest.stats), targetCoverage)
    THEN ValidationResult(FALSE, "COVERAGE TOO LOW", Percentage(jest.stats))
  ELSE ValidationResult(TRUE, EmptyString, Percentage(jest.stats))

TargetCoverages == {0, DefaultTargetCoverage, 100}

\* the scratch files validateTest writes into the repository directory
TsconfigValidation == "tsconfig.validation.json"

JestConfigVerification == "jest.config.verification.js"

\* fs.writeFile and fs.unlink on the set of scratch files present
writeFile(dir, name) == dir \cup {name}

unlink(dir, name) == dir \ {name}

\* which sandbox call of the validation rejects (a system-level exception)
ValFaults == {"none", "tsc", "jest"}

\* the state of a call validateTest(testFilePath, repoPath, targetCoverage)
ValCall(tsc, jest, targetCoverage) ==
  [pc |-> "compile", tsc |-> tsc, jest |-> jest,
   targetCoverage |-> targetCoverage, runnerCalls |-> 0,
   fault |-> "none", scratch |-> {},
   result |-> ValidationResult(FALSE, "<pending>", Zero)]

(* ---------------------------------------------------------------------- *)
(* TrackedRepository, its store and the scan queue                         *)
(* ---------------------------------------------------------------------- *)
ReqIds == 1..MaxRequests

\* uuidv4() mints a fresh id on every call: the id minted by request r is r
RepoIds == ReqIds

TrackedUrls == RepoUrls

\* lastCoverageReport: null, or the FileCoverage[] of one scan
Null == [isNull |-> TRUE, entries |-> <<>>]

Report(entries) == [isNull |-> FALSE, entries |-> entries]

\* what scanCoverage can resolve with: the lines percentage of each file
ScanReports == {Report(<<0, 0>>), Report(<<100, 50>>)}

\* repository.findByUrl / findById resolve with null
NoRepo == [id |-> 0, url |-> EmptyString, lastCoverageReport |-> Null]

\* TrackedRepository.create(id, url)
createTracked(id, url) ==
  [id |-> id, url |-> url, lastCoverageReport |-> Null]

\* repo.updateCoverage(report)
updateCoverage(repo, report) == [repo EXCEPT !.lastCoverageReport = report]

\* a lookup that finds no row
findByUrl_NeverFinds(store, url) ==
  IF \E row \in store : row.url = url /\ row.url # url
    THEN CHOOSE row \in store : row.url = url
    ELSE NoRepo

findByUrl(store, url) ==
  IF \E row \in store : row.url = url
    THEN CHOOSE row \in store : row.url = url
    ELSE NoRepo

findRepositoryById(store, id) ==
  IF \E row \in store : row.id = id
    THEN CHOOSE row \in store : row.id = id
    ELSE NoRepo

\* the unique url column rejects a second row with the url of another row
UniqueViolation(store, repo) ==
  \E row \in store : row.url = repo.url /\ row.id # repo.id

\* a save that writes the report entry by entry, keeping the first entry of
\* a report the row already holds
saveRepository_Merging(store, repo) ==
  {IF row.id = repo.id /\ ~row.lastCoverageReport.isNull
        /\ ~repo.lastCoverageReport.isNull
     THEN [repo EXCEPT !.lastCoverageReport =
             Report(<<row.lastCoverageReport.entries[1],
                      repo.lastCoverageReport.entries[2]>>)]
     ELSE IF row.id = repo.id THEN repo ELSE row : row \in store}
    \cup {row \in {repo} : \A other \in store : other.id # repo.id}

\* TrackedRepositoryTypeormRepository.save: the row of the entity's id is
\* written as a whole, inserted when the id is new
saveRepository(store, repo) ==
  {row \in store : row.id # repo.id} \cup {repo}

\* a scan job of the queue: the repo id of its payload and the millisecond
\* of its job id `scan-<id>-<Date.now()>`
ScanJob(id, at) == <<id, at>>

ScanJobs == RepoIds \X (0..MaxClock)

\* the consumer's run of a scan job
NoRun ==
  [pc |-> "none", attemptsMade |-> 0, repo |-> NoRepo, localPath |-> FALSE,
   failedAt |-> "nowhere", coverage |-> Null, saves |-> 0, cleanups |-> 0,
   rethrown |-> FALSE]

\* an API request: the command and its arguments, the handler's position
\* and locals, what it has called so far and how it ended
NoRequest ==
  [kind |-> "none", pc |-> "idle", url |-> EmptyString, file |-> EmptyString,
   id |-> 0, called |-> FALSE, hasDeps |-> "unchecked", checks |-> 0,
   saves |-> 0, adds |-> 0, addedAt |-> 0, status |-> "pending"]

\* if (!hasDeps) throw new BadRequestException(...)
DependenciesMissing_Ignored(hasDeps) == hasDeps /\ ~hasDeps

DependenciesMissing(hasDeps) == ~hasDeps

RepoInit ==
  /\ repoStore = {}
  /\ scanKeys = {}
  /\ scanQueue = <<>>
  /\ scan = [k \in ScanJobs |-> NoRun]
  /\ req = [r \in ReqIds |-> NoRequest]

(* ---------------------------------------------------------------------- *)
(* CoverageParserService.scanCoverage                                      *)
(* ---------------------------------------------------------------------- *)
\* a file name is the sequence of its characters; a path is the sequence
\* of its directories and the file name
Path(dirs, name) == [dirs |-> dirs, name |-> name]

SKIP_DIRS ==
  {"node_modules", "dist", "build", "coverage", ".git", "interfaces",
   "interface", "types", "type", "enums", "enum", "constants", "typings"}

\* the patterns `*<tail>`, each given by its tail
SKIP_SUFFIXES ==
  {<<".", "d", ".", "t", "s">>,
   <<".", "i", "n", "t", "e", "r", "f", "a", "c", "e", ".", "t", "s">>,
   <<".", "i", "n", "t", "e", "r", "f", "a", "c", "e", "s", ".", "t", "s">>,
   <<".", "t", "y", "p", "e", "s", ".", "t", "s">>,
   <<".", "t", "y", "p", "e", ".", "t", "s">>,
   <<".", "e", "n", "u", "m", ".", "t", "s">>,
   <<".", "e", "n", "u", "m", "s", ".", "t", "s">>,
   <<".", "c", "o", "n", "s", "t", "a", "n", "t", "s", ".", "t", "s">>,
   <<".", "c", "o", "n", "s", "t", "a", "n", "t", ".", "t", "s">>,
   <<".", "s", "p", "e", "c", ".", "t", "s">>,
   <<".", "t", "e", "s", "t", ".", "t", "s">>,
   <<".", "s", "p", "e", "c", ".", "t", "s", "x">>,
   <<".", "t", "e", "s", "t", ".", "t", "s", "x">>,
   <<"a", "p", "p", ".", "t", "s">>,
   <<"m", "a", "i", "n", ".", "t", "s">>,
   <<"i", "n", "d", "e", "x", ".", "t", "s">>,
   <<".", "m", "o", "d", "u", "l", "e", ".", "t", "s">>,
   <<".", "e", "n", "t", "i", "t", "y", ".", "t", "s">>}

EndsWith(name, tail) ==
  /\ Len(name) >= Len(tail)
  /\ SubSeq(name, Len(name) - Len(tail) + 1, Len(name)) = tail

\* new RegExp(s.replace('*', '.*').replace('.', '\\.') + '$').test(name):
\* the second replace escapes the dot of the leading `.*`, so that every
\* dot of the tail is left to match any character
RegexTest(tail, name) ==
  /\ Len(name) >= Len(tail)
  /\ \A i \in 1..Len(tail) :
       tail[i] = "." \/ tail[i] = name[Len(name) - Len(tail) + i]

\* SKIP_FILE_REGEXES.some((r) => r.test(name))
SkippedFile(name) == \E tail \in SKIP_SUFFIXES : RegexTest(tail, name)

\* /\.tsx?$/.test(name)
IsTs(name) == EndsWith(name, <<".", "t", "s">>) \/ EndsWith(name, <<".", "t", "s", "x">>)

SvcTs == <<"s", "v", "c", ".", "t", "s">>

AddTs == <<"a", "d", "d", ".", "t", "s">>

MainTs == <<"m", "a", "i", "n", ".", "t", "s">>

SpecTs == <<"x", ".", "s", "p", "e", "c", ".", "t", "s">>

ReadmeMd == <<"r", "e", "a", "d", "m", "e", ".", "m", "d">>

\* the files of the clone
TreeFiles ==
  {Path(<<"src">>, SvcTs), Path(<<"src">>, AddTs), Path(<<"src">>, MainTs),
   Path(<<"src">>, SpecTs), Path(<<"src", "types">>, SvcTs),
   Path(<<>>, ReadmeMd)}

Trees == {{}, {Path(<<"src">>, MainTs), Path(<<"src", "types">>, SvcTs)}, TreeFiles}

\* walkTs(localPath, localPath): the .ts / .tsx files outside the skipped
\* directories whose name no skip pattern matches
walkTs(tree) ==
  {p \in tree :
     /\ \A i \in 1..Len(p.dirs) : p.dirs[i] \notin SKIP_DIRS
     /\ IsTs(p.name)
     /\ ~SkippedFile(p.name)}

\* a JSON value read as a percentage: absent (undefined or null), a number
\* or a string
Pct(kind, n) == [kind |-> kind, n |-> n]

PctValues ==
  {Pct("absent", 0), Pct("number", 0), Pct("number", 50), Pct("number", 100),
   Pct("number", 250), Pct("number", -1), Pct("string", 0)}

\* data.lines?.pct ?? 0
linesCoverage(pct) == IF pct.kind = "absent" THEN Pct("number", 0) ELSE pct

FileCoverage(filePath, coverage) ==
  [filePath |-> filePath, linesCoverage |-> coverage]

\* an entry of coverage-summary.json: whether its real path lies inside the
\* clone, the path relative to the clone when it does, else the part of
\* the key after its first `src/` (hasSrc) and the percentage
Entry(inside, hasSrc, path, pct) ==
  [inside |-> inside, hasSrc |-> hasSrc, path |-> path, pct |-> pct]

SummaryEntries ==
  {Entry(TRUE, TRUE, Path(<<"src">>, SvcTs), pct) : pct \in PctValues}
    \cup {Entry(TRUE, TRUE, p, Pct("number", 50)) :
            p \in {Path(<<"src">>, MainTs), Path(<<"src", "types">>, SvcTs),
                   Path(<<>>, ReadmeMd)}}
    \cup {Entry(FALSE, hasSrc, Path(<<>>, SvcTs), Pct("number", 50)) :
            hasSrc \in BOOLEAN}

NoSummary == [kind |-> "absent", entries |-> {}]

BadSummary == [kind |-> "unparseable", entries |-> {}]

Summary(entries) == [kind |-> "json", entries |-> entries]

Summaries ==
  {NoSummary, BadSummary}
    \cup {Summary(es) : es \in {es \in SUBSET SummaryEntries : Cardinality(es) <= 2}}

\* the path an entry is reported under: relative to the clone, or for a
\* path outside it `src/<rest>` when the key holds `src/`
rel(entry) ==
  IF entry.inside THEN entry.path
  ELSE Path(<<"src">> \o entry.path.dirs, entry.path.name)

\* the loop over the summary: escaped paths without `src/`, files that are
\* not TypeScript and excluded files are passed over
ParsedResults(entries) ==
  {FileCoverage(rel(e), linesCoverage(e.pct)) :
     e \in {e \in entries :
              /\ e.inside \/ e.hasSrc
              /\ IsTs(rel(e).name)
              /\ \A i \in 1..Len(rel(e).dirs) : rel(e).dirs[i] \notin SKIP_DIRS
              /\ ~SkippedFile(rel(e).name)}}

\* every source file of the walk at 0%
FallbackResults(tree) ==
  {FileCoverage(p, Pct("number", 0)) : p \in walkTs(tree)}

\* how the commands of a scan are run
executeCommand(what) == [what |-> what, via |-> "host"]

runSandboxedCommand(what) == [what |-> what, via |-> "container"]

\* what the jest run can do: resolve, reject with exit code 1 and stderr
\* (failing tests), or reject otherwise (spawn failure, timeout)
JestRuns == {"ok", "exit 1", "fatal"}

\* a rejection that is no test failure is thrown on
isTestFailure_Never(run) == run = "exit 1" /\ run = "fatal"

\* err?.code === 1 && err?.stderr !== undefined
isTestFailure(run) == run = "exit 1"

\* node_modules is there, or the install resolves, or it rejects
Installs == {"present", "ok", "fails"}

\* the state of a call scanCoverage(localPath): what it will meet in the
\* clone, its position, the commands it has run, the injected config file
\* and its result
CovCall(install, hasExistingConfig, jest, summary, tree) ==
  [pc |-> "install", install |-> install,
   hasExistingConfig |-> hasExistingConfig, jest |-> jest,
   summary |-> summary, tree |-> tree, commands |-> <<>>,
   wroteConfig |-> FALSE, configFile |-> FALSE, fallback |-> FALSE,
   results |-> {}]

CovIdle == CovCall("present", TRUE, "ok", NoSummary, {})

(* ---------------------------------------------------------------------- *)
(* SandboxExecutorService.runCommand                                       *)
(* ---------------------------------------------------------------------- *)
\* what the child writes to stdout and stderr, chunk by chunk
Chunks == {"text", "\n"}

RECURSIVE trimStart(_)
\* leading whitespace removed
trimStart(output) ==
  IF output # <<>> /\ Head(output) = "\n" THEN trimStart(Tail(output))
  ELSE output

RECURSIVE trimEnd(_)
\* trailing whitespace removed
trimEnd(output) ==
  IF output # <<>> /\ output[Len(output)] = "\n"
    THEN trimEnd(SubSeq(output, 1, Len(output) - 1))
    ELSE output

\* output.trim()
trim(output) == trimEnd(trimStart(output))

TIMEOUT == "\nTIMEOUT"

ErrMessage == "spawn ENOENT"

\* the exit code handed to the close listener; null after a signal
ExitCodes == {0, 1, -1}

Unsettled == [success |-> FALSE, output |-> <<"<pending>">>]

\* a promise whose every resolve call replaces the value
resolve_LastWins(c, value) == [c EXCEPT !.outcome = value, !.resolves = @ + 1]

\* resolve(value): the first call settles the promise, later calls do nothing
resolve(c, value) ==
  [c EXCEPT !.outcome = IF c.outcome = Unsettled THEN value ELSE @,
            !.resolves = @ + 1]

\* the state of a call runCommand(command, args, cwd, env, timeoutMs) after
\* spawn and setTimeout
CmdCall ==
  [output |-> <<>>, timer |-> "armed", closed |-> FALSE, errored |-> FALSE,
   killed |-> FALSE, code |-> 0, first |-> "none", outcome |-> Unsettled,
   resolves |-> 0]

(* ---------------------------------------------------------------------- *)
(* GitHubService: the operations that take a repository URL                *)
(* ---------------------------------------------------------------------- *)
\* a repository URL as the pattern reads it: the domain and the two path
\* segments that follow it (either may be missing)
Url(domain, owner, repo) == [domain |-> domain, owner |-> owner, repo |-> repo]

HostUrls ==
  {Url(domain, owner, repo) : domain \in {"github.com", "gitlab.com"},
                              owner \in {"o", EmptyString},
                              repo \in {"r", "r.git", EmptyString}}

NoMatch == [owner |-> EmptyString, repo |-> EmptyString]

\* repositoryUrl.match(/github\.com\/([^/]+)\/([^/.]+)/): owner and the
\* repository name up to its first dot, or null
match(url) ==
  IF url.domain = "github.com" /\ url.owner # EmptyString
       /\ url.repo # EmptyString
    THEN [owner |-> url.owner, repo |-> IF url.repo = "r.git" THEN "r" ELSE url.repo]
    ELSE NoMatch

MsgInvalidUrl == "Invalid GitHub repository URL"

MsgProvider == "HttpError"

HostOps == {"hasRequiredDependencies", "checkPermissions", "createPullRequest"}

\* what the provider answers: the favourable answer, the other one, or a
\* rejection
ProviderAnswers == {"yes", "no", "error"}

\* a boolean result, as text
Bool(b) == IF b THEN "true" ELSE "false"

\* the state of a call of one of the three operations
HostCall(op, url, token, answer) ==
  [pc |-> "called", op |-> op, url |-> url, token |-> token,
   answer |-> answer, providerCalls |-> 0, value |-> "<pending>"]

HostIdle == HostCall("checkPermissions", Url("github.com", "o", "r"), TRUE, "yes")

ToolsIdle ==
  /\ cmd = CmdCall
  /\ cov = CovIdle
  /\ host = HostIdle

\* everything but the validator and the repository service at rest
Idle ==
  /\ now = 0
  /\ jobStore = <<>>
  /\ queue = <<>>
  /\ deliveries = [j \in JobIds |-> 0]
  /\ pc = [j \in JobIds |-> "idle"]
  /\ mem = [j \in JobIds |-> BlankJob]
  /\ localRepoPath = [j \in JobIds |-> NoPath]
  /\ thrown = [j \in JobIds |-> Undefined]
  /\ events = [j \in JobIds |-> <<>>]
  /\ cloneDirs = {}
  /\ ent = create(1, "https://github.com/o/r", "src/svc.ts", 0)
  /\ gen = GenCall(SourceSvc, ".test.ts", Absent)
  /\ files = [p \in GenPaths |-> Absent]

(* ---------------------------------------------------------------------- *)
(* Initial state: empty store and queue, idle consumer                     *)
(* ---------------------------------------------------------------------- *)
Init ==
  /\ now = 0
  /\ jobStore = <<>>
  /\ queue = <<>>
  /\ deliveries = [j \in JobIds |-> 0]
  /\ pc = [j \in JobIds |-> "idle"]
  /\ mem = [j \in JobIds |-> BlankJob]
  /\ localRepoPath = [j \in JobIds |-> NoPath]
  /\ thrown = [j \in JobIds |-> Undefined]
  /\ events = [j \in JobIds |-> <<>>]
  /\ cloneDirs = {}
  /\ ent = create(1, "https://github.com/o/r", "src/svc.ts", 0)
  /\ gen = GenCall(SourceSvc, ".test.ts", Absent)
  /\ files = [p \in GenPaths |-> Absent]
  /\ val = ValCall(QuietTsc, QuietJest, DefaultTargetCoverage)
  /\ RepoInit
  /\ ToolsIdle

\* time passes: the next new Date() reads a later millisecond. The clock is
\* seen only through the stamps it leaves, so it moves on only from an
\* instant that some stored job carries.
Tick ==
  /\ now < MaxClock
  /\ \E k \in DOMAIN jobStore : jobStore[k].updatedAt = now
  /\ now' = now + 1
  /\ UNCHANGED <<pipelineVars, ent, genVars, valVars, toolVars, repoVars>>

(* ---------------------------------------------------------------------- *)
(* JobOrchestrationService.createJob, in the API process                   *)
(* ---------------------------------------------------------------------- *)
\* ImprovementJob.create(uuidv4(), ...), jobRepository.save(job) and
\* queue.add('improve-coverage', {jobId}, {jobId}); uuidv4() is the next
\* unused id
createJob(j, url, file) ==
  /\ j \notin DOMAIN jobStore
  /\ \A k \in JobIds : k < j => k \in DOMAIN jobStore
  /\ jobStore' = save(jobStore, create(j, url, file, now))
  /\ queue' = Append(queue, j)
  /\ UNCHANGED <<now, deliveries, pc, mem, localRepoPath, thrown, events,
                 cloneDirs, ent, genVars, valVars, toolVars, repoVars>>

\* the broker hands a job id to the consumer again after its run: the job's
\* lock lapsed while it ran and the broker moved it back to wait, or
\* process() rejected and the job is retried; at most Attempts deliveries
Redeliver(j) ==
  /\ pc[j] = "idle"
  /\ deliveries[j] >= 1
  /\ deliveries[j] < Attempts
  /\ \A i \in 1..Len(queue) : queue[i] # j
  /\ queue' = Append(queue, j)
  /\ UNCHANGED <<now, jobStore, deliveries, pc, mem, localRepoPath, thrown,
                 events, cloneDirs, ent, genVars, valVars, toolVars, repoVars>>

(* ---------------------------------------------------------------------- *)
(* CoverageImprovementProcessor.process and ImproveCoverageUseCase.execute *)
(* ---------------------------------------------------------------------- *)
Running == {j \in JobIds : pc[j] # "idle"}

RECURSIVE DeliveriesUpTo(_)
DeliveriesUpTo(n) == IF n = 0 THEN 0 ELSE deliveries[n] + DeliveriesUpTo(n - 1)

TotalDeliveries == DeliveriesUpTo(MaxJobs)

\* the worker takes the head of the queue when a concurrency slot is free
Process(j) ==
  /\ queue # <<>>
  /\ Head(queue) = j
  /\ pc[j] = "idle"
  /\ Cardinality(Running) < Concurrency
  /\ TotalDeliveries < MaxDeliveries
  /\ queue' = Tail(queue)
  /\ deliveries' = [deliveries EXCEPT ![j] = @ + 1]
  /\ pc' = [pc EXCEPT ![j] = "findById"]
  /\ UNCHANGED <<now, jobStore, mem, localRepoPath, thrown, events, cloneDirs, ent, genVars, valVars, toolVars, repoVars>>

\* job.updateStatus(...) followed by await jobRepository.save(job)
SetStatus(j, status, errorMessage, prLink) ==
  LET job == updateStatus(mem[j], status, errorMessage, prLink, now) IN
    /\ mem' = [mem EXCEPT ![j] = job]
    /\ jobStore' = save(jobStore, job)
    /\ events' = [events EXCEPT ![j] = Append(@, jobStore'[j].status)]

Called(j, what) == events' = [events EXCEPT ![j] = Append(@, what)]

CalledAnd(j, what, outcome) ==
  events' = [events EXCEPT ![j] = @ \o <<what, outcome>>]

Goto(j, where) == pc' = [pc EXCEPT ![j] = where]

Throw(j, message) ==
  /\ thrown' = [thrown EXCEPT ![j] = message]
  /\ Goto(j, "catch")

\* step 1: load the job; absent: log and return
Execute_FindById(j) ==
  /\ pc[j] = "findById"
  /\ mem' = [mem EXCEPT ![j] = findById(jobStore, j)]
  /\ Goto(j, IF findById(jobStore, j) # BlankJob THEN "setCloning" ELSE "done")
  /\ UNCHANGED <<now, jobStore, queue, deliveries, localRepoPath, thrown,
                 events, cloneDirs, ent, genVars, valVars, toolVars, repoVars>>

\* step 2: CLONING, persisted
Execute_SetCloning(j) ==
  /\ pc[j] = "setCloning"
  /\ SetStatus(j, CLONING, Undefined, Undefined)
  /\ Goto(j, "checkPermissions")
  /\ UNCHANGED <<now, queue, deliveries, localRepoPath, thrown, cloneDirs, ent, genVars, valVars, toolVars, repoVars>>

\* step 2: the permission check; false fails the job
Execute_CheckPermissions(j) ==
  /\ pc[j] = "checkPermissions"
  /\ \E access \in AccessLevels :
        IF checkPermissions(TokenSet, access)
          THEN Called(j, "checkPermissions") /\ Goto(j, "clone")
               /\ UNCHANGED thrown
          ELSE CalledAnd(j, "checkPermissions", "permission denied")
               /\ Throw(j, MsgPermissions)
  /\ UNCHANGED <<now, jobStore, queue, deliveries, mem, localRepoPath, cloneDirs, ent, genVars, valVars, toolVars, repoVars>>

\* step 3: clone; the local path is recorded only when clone returned
Execute_Clone(j) ==
  /\ pc[j] = "clone"
  /\ \E ok \in BOOLEAN :
        LET r == cloneRepository(cloneDirs, TmpDir(j), ok) IN
          /\ cloneDirs' = r.dirs
          /\ IF r.threw
               THEN /\ CalledAnd(j, "cloneRepository", "clone rejected")
                    /\ Throw(j, MsgHost)
                    /\ UNCHANGED localRepoPath
               ELSE /\ Called(j, "cloneRepository")
                    /\ localRepoPath' = [localRepoPath EXCEPT ![j] = r.path]
                    /\ Goto(j, "getDefaultBranch")
                    /\ UNCHANGED thrown
  /\ UNCHANGED <<now, jobStore, queue, deliveries, mem, ent, genVars, valVars, toolVars, repoVars>>

\* step 3: the default branch of the fresh clone
Execute_GetDefaultBranch(j) ==
  /\ pc[j] = "getDefaultBranch"
  /\ Called(j, "getDefaultBranch")
  /\ \E ok \in BOOLEAN :
        IF ok THEN Goto(j, "access") /\ UNCHANGED thrown
              ELSE Throw(j, MsgHost)
  /\ UNCHANGED <<now, jobStore, queue, deliveries, mem, localRepoPath, cloneDirs, ent, genVars, valVars, toolVars, repoVars>>

\* step 4: the target source file must exist in the clone
Execute_AccessSource(j) ==
  /\ pc[j] = "access"
  /\ Called(j, "access")
  /\ \E exists \in BOOLEAN :
        IF exists THEN Goto(j, "setAnalyzing") /\ UNCHANGED thrown
                  ELSE Throw(j, MsgSourceMissing)
  /\ UNCHANGED <<now, jobStore, queue, deliveries, mem, localRepoPath, cloneDirs, ent, genVars, valVars, toolVars, repoVars>>

\* step 5: ANALYZING, persisted
Execute_SetAnalyzing(j) ==
  /\ pc[j] = "setAnalyzing"
  /\ SetStatus(j, ANALYZING, Undefined, Undefined)
  /\ Goto(j, "setGenerating")
  /\ UNCHANGED <<now, queue, deliveries, localRepoPath, thrown, cloneDirs, ent, genVars, valVars, toolVars, repoVars>>

\* step 6: GENERATING, persisted
Execute_SetGenerating(j) ==
  /\ pc[j] = "setGenerating"
  /\ SetStatus(j, GENERATING, Undefined, Undefined)
  /\ Goto(j, "generateTest")
  /\ UNCHANGED <<now, queue, deliveries, localRepoPath, thrown, cloneDirs, ent, genVars, valVars, toolVars, repoVars>>

\* the job's file path as generateTest takes it apart
SourcePath(file) ==
  CASE file = "src/svc.ts" -> SourceSvc
    [] file = "src/index.ts" -> SourceIndex
    [] OTHER -> <<EmptyString, EmptyString, EmptyString>>

\* step 6: AIGenerator.generateTest resolves, after the validator accepted
\* a test or at once for a source on its skip list, or rejects; both ways
\* of resolving give the use case the same void
Execute_GenerateTest(j) ==
  /\ pc[j] = "generateTest"
  /\ IF shouldSkipFile(SourcePath(mem[j].filePath))
       THEN /\ CalledAnd(j, "generateTest", "skipped")
            /\ Goto(j, "setPushing")
            /\ UNCHANGED thrown
       ELSE \E ok \in BOOLEAN :
              IF ok THEN /\ CalledAnd(j, "generateTest", "validated")
                         /\ Goto(j, "setPushing")
                         /\ UNCHANGED thrown
                    ELSE Called(j, "generateTest") /\ Throw(j, MsgGeneration)
  /\ UNCHANGED <<now, jobStore, queue, deliveries, mem, localRepoPath, cloneDirs, ent, genVars, valVars, toolVars, repoVars>>

\* step 7: PUSHING, persisted
Execute_SetPushing(j) ==
  /\ pc[j] = "setPushing"
  /\ SetStatus(j, PUSHING, Undefined, Undefined)
  /\ Goto(j, "commitAndPush")
  /\ UNCHANGED <<now, queue, deliveries, localRepoPath, thrown, cloneDirs, ent, genVars, valVars, toolVars, repoVars>>

\* step 7: commit and push the generated test on the job's branch
Execute_CommitAndPush(j) ==
  /\ pc[j] = "commitAndPush"
  /\ Called(j, "commitAndPushChanges")
  /\ \E ok \in BOOLEAN :
        IF ok THEN Goto(j, "createPullRequest") /\ UNCHANGED thrown
              ELSE Throw(j, MsgHost)
  /\ UNCHANGED <<now, jobStore, queue, deliveries, mem, localRepoPath, cloneDirs, ent, genVars, valVars, toolVars, repoVars>>

\* step 8: open the pull request, then PR_CREATED with its link, persisted
Execute_CreatePullRequest(j) ==
  /\ pc[j] = "createPullRequest"
  /\ \E ok \in BOOLEAN :
        IF ok
          THEN /\ LET job == updateStatus(mem[j], PR_CREATED, Undefined,
                                          createPullRequest(TokenSet), now) IN
                    /\ mem' = [mem EXCEPT ![j] = job]
                    /\ jobStore' = save(jobStore, job)
               /\ events' = [events EXCEPT
                    ![j] = @ \o <<"createPullRequest", jobStore'[j].status>>]
               /\ Goto(j, "finally")
               /\ UNCHANGED thrown
          ELSE /\ Called(j, "createPullRequest")
               /\ Throw(j, MsgHost)
               /\ UNCHANGED <<mem, jobStore>>
  /\ UNCHANGED <<now, queue, deliveries, localRepoPath, cloneDirs, ent, genVars, valVars, toolVars, repoVars>>

\* step 9: any thrown error: FAILED with the error's message, persisted
Execute_Catch(j) ==
  /\ pc[j] = "catch"
  /\ SetStatus(j, FAILED, thrown[j], Undefined)
  /\ Goto(j, "finally")
  /\ UNCHANGED <<now, queue, deliveries, localRepoPath, thrown, cloneDirs, ent, genVars, valVars, toolVars, repoVars>>

\* finally: if (localRepoPath) ...
ShouldCleanup(path) == path # NoPath

\* step 10: finally: cleanup when a local path was recorded; its failures
\* are logged and not re-thrown
Execute_Finally(j) ==
  /\ pc[j] = "finally"
  /\ IF ShouldCleanup(localRepoPath[j])
       THEN \E rmOk \in BOOLEAN :
              /\ cloneDirs' = cleanupLocalRepository(cloneDirs,
                                                     localRepoPath[j], rmOk)
              /\ IF rmOk
                   THEN Called(j, "cleanupLocalRepository")
                   ELSE CalledAnd(j, "cleanupLocalRepository", "rm rejected")
       ELSE UNCHANGED <<events, cloneDirs>>
  /\ Goto(j, "done")
  /\ UNCHANGED <<now, jobStore, queue, deliveries, mem, localRepoPath, thrown,
                 ent, genVars, valVars, toolVars, repoVars>>

\* process() resolves: the slot is free for the next job
Process_Resolve(j) ==
  /\ pc[j] = "done"
  /\ pc' = [pc EXCEPT ![j] = "idle"]
  /\ mem' = [mem EXCEPT ![j] = BlankJob]
  /\ localRepoPath' = [localRepoPath EXCEPT ![j] = NoPath]
  /\ thrown' = [thrown EXCEPT ![j] = Undefined]
  /\ events' = [events EXCEPT ![j] = <<>>]
  /\ UNCHANGED <<now, jobStore, queue, deliveries, cloneDirs, ent, genVars, valVars, toolVars, repoVars>>

ApiStep ==
  \E j \in JobIds, url \in RepoUrls, file \in FilePaths : createJob(j, url, file)

BrokerStep ==
  \/ \E j \in JobIds : Redeliver(j)
  \/ \E j \in JobIds : Process(j)

ExecuteStep(j) ==
  \/ Execute_FindById(j)
  \/ Execute_SetCloning(j)
  \/ Execute_CheckPermissions(j)
  \/ Execute_Clone(j)
  \/ Execute_GetDefaultBranch(j)
  \/ Execute_AccessSource(j)
  \/ Execute_SetAnalyzing(j)
  \/ Execute_SetGenerating(j)
  \/ Execute_GenerateTest(j)
  \/ Execute_SetPushing(j)
  \/ Execute_CommitAndPush(j)
  \/ Execute_CreatePullRequest(j)
  \/ Execute_Catch(j)
  \/ Execute_Finally(j)
  \/ Process_Resolve(j)

WorkerStep == \E j \in JobIds : ExecuteStep(j)

\* a step of the API, the broker or the worker
PipelineStep == ApiStep \/ BrokerStep \/ WorkerStep

Next == Tick \/ PipelineStep

Spec == Init /\ [][Next]_vars

\* the worker's event loop runs every continuation that is ready. No guard
\* reads the clock, so which step can follow which does not depend on it:
\* the runs are taken at one instant.
FairSpec ==
  Init /\ [][PipelineStep]_vars /\ WF_vars(BrokerStep) /\ WF_vars(WorkerStep)

(* ---------------------------------------------------------------------- *)
(* The consumer on its own: the broker holds every job id, the database    *)
(* holds a row for some of them (the two are separate stores)              *)
(* ---------------------------------------------------------------------- *)
ExecFiles == {"src/svc.ts", "src/index.ts"}

ExecInit ==
  /\ now = 0
  /\ \E stored \in SUBSET JobIds :
       \E file \in [stored -> ExecFiles] :
         jobStore = [j \in stored |-> create(j, "https://github.com/o/r",
                                             file[j], 0)]
  /\ queue = [i \in 1..MaxJobs |-> i]
  /\ deliveries = [j \in JobIds |-> 0]
  /\ pc = [j \in JobIds |-> "idle"]
  /\ mem = [j \in JobIds |-> BlankJob]
  /\ localRepoPath = [j \in JobIds |-> NoPath]
  /\ thrown = [j \in JobIds |-> Undefined]
  /\ events = [j \in JobIds |-> <<>>]
  /\ cloneDirs = {}
  /\ ent = create(1, "https://github.com/o/r", "src/svc.ts", 0)
  /\ gen = GenCall(SourceSvc, ".test.ts", Absent)
  /\ files = [p \in GenPaths |-> Absent]
  /\ val = ValCall(QuietTsc, QuietJest, DefaultTargetCoverage)
  /\ RepoInit
  /\ ToolsIdle

ExecNext == Tick \/ BrokerStep \/ WorkerStep

ExecSpec == ExecInit /\ [][ExecNext]_vars

(* ---------------------------------------------------------------------- *)
(* The entity on its own: any sequence of updateStatus calls               *)
(* ---------------------------------------------------------------------- *)
EntityMessages == {Undefined, EmptyString, MsgHost, MsgPermissions}

EntityLinks == {Undefined, EmptyString, HtmlUrl, MockPrLink}

Entity_Tick ==
  /\ now < MaxClock
  /\ now' = now + 1
  /\ UNCHANGED <<pipelineVars, ent, genVars, valVars, toolVars, repoVars>>

Entity_UpdateStatus(status, errorMessage, prLink) ==
  /\ ent' = updateStatus(ent, status, errorMessage, prLink, now)
  /\ UNCHANGED <<now, pipelineVars, genVars, valVars, toolVars, repoVars>>

EntityNext ==
  \/ Entity_Tick
  \/ \E status \in JobStatus, errorMessage \in EntityMessages,
        prLink \in EntityLinks :
          Entity_UpdateStatus(status, errorMessage, prLink)

EntitySpec == Init /\ [][EntityNext]_vars

(* ---------------------------------------------------------------------- *)
(* One call of generateTest, for every argument and every behaviour of    *)
(* the CLI and the validator                                               *)
(* ---------------------------------------------------------------------- *)
GenInit ==
  /\ now = 0
  /\ jobStore = <<>>
  /\ queue = <<>>
  /\ deliveries = [j \in JobIds |-> 0]
  /\ pc = [j \in JobIds |-> "idle"]
  /\ mem = [j \in JobIds |-> BlankJob]
  /\ localRepoPath = [j \in JobIds |-> NoPath]
  /\ thrown = [j \in JobIds |-> Undefined]
  /\ events = [j \in JobIds |-> <<>>]
  /\ cloneDirs = {}
  /\ ent = create(1, "https://github.com/o/r", "src/svc.ts", 0)
  /\ \E source \in GenSources, suffix \in TestSuffixes,
        before \in {Absent, OldTest} :
          gen = GenCall(source, suffix, before)
  /\ files = [p \in GenPaths |-> IF p = gen.suffix THEN gen.before ELSE Absent]
  /\ val = ValCall(QuietTsc, QuietJest, DefaultTargetCoverage)
  /\ RepoInit
  /\ ToolsIdle

GenGoto(where) == [gen EXCEPT !.pc = where]

GenThrow(g, message) == [g EXCEPT !.pc = "threw", !.error = message]

\* the early exclusion: a skipped source returns without doing anything
Gen_Start ==
  /\ gen.pc = "start"
  /\ gen' = GenGoto(IF shouldSkipFile(gen.source) THEN "returned" ELSE "gather")
  /\ UNCHANGED <<now, pipelineVars, ent, valVars, toolVars, repoVars, files>>

\* Promise.all of readFile, getPackages and analyze: readFile may reject
Gen_Gather ==
  /\ gen.pc = "gather"
  /\ \E readOk \in BOOLEAN :
        gen' = IF readOk
                 THEN GenGoto(IF LoopCondition(gen.attempt) THEN "prompt"
                                                           ELSE "exhausted")
                 ELSE GenThrow(gen, MsgRead)
  /\ UNCHANGED <<now, pipelineVars, ent, valVars, toolVars, repoVars, files>>

\* buildPrompt with currentError; the prompt and system files are written
Gen_WritePrompt ==
  /\ gen.pc = "prompt"
  /\ gen' = [gen EXCEPT !.pc = "cli",
                         !.prompts = Append(@, errorSection(gen.currentError))]
  /\ files' = [files EXCEPT ![".gemini-prompt.txt"] = "prompt",
                            ![".gemini/system.md"] = "system instruction"]
  /\ UNCHANGED <<now, pipelineVars, ent, valVars, toolVars, repoVars>>

\* runSandboxedCommand and the parse of its output; finally: the prompt
\* and system files are removed; no generated text: the call throws
Gen_RunCli ==
  /\ gen.pc = "cli"
  /\ \E outcome \in CliOutcomes :
        LET called == [gen EXCEPT !.cliCalls = @ + 1] IN
          gen' = IF outcome = "code"
                   THEN [called EXCEPT !.pc = "write",
                                       !.code = GeneratedCode(gen.attempt)]
                   ELSE IF outcome = "empty"
                     THEN GenThrow(called, MsgEmpty)
                     ELSE GenThrow(called, MsgCli(outcome))
  /\ files' = [files EXCEPT ![".gemini-prompt.txt"] = Absent,
                            ![".gemini/system.md"] = Absent]
  /\ UNCHANGED <<now, pipelineVars, ent, valVars, toolVars, repoVars>>

\* the generated code goes to the verification path
Gen_WriteVerification ==
  /\ gen.pc = "write"
  /\ files' = [files EXCEPT ![tempTestFilePath(gen.suffix)] = gen.code]
  /\ gen' = GenGoto("validate")
  /\ UNCHANGED <<now, pipelineVars, ent, valVars, toolVars, repoVars>>

\* validateTest: success renames the verification file over the target
\* and returns; failure keeps its error for the next prompt
Gen_Validate ==
  /\ gen.pc = "validate"
  /\ \/ /\ gen' = [gen EXCEPT !.pc = "returned",
                               !.validations = Append(@, [success |-> TRUE,
                                                          error |-> EmptyString])]
        /\ files' = rename(files, tempTestFilePath(gen.suffix), gen.suffix)
     \/ /\ \E text \in ValidatorErrors :
             gen' = [gen EXCEPT
                       !.pc = IF LoopCondition(gen.attempt + 1) THEN "prompt"
                                                                ELSE "exhausted",
                       !.attempt = @ + 1,
                       !.currentError = text,
                       !.validations = Append(@, [success |-> FALSE,
                                                  error |-> text])]
        /\ UNCHANGED files
  /\ UNCHANGED <<now, pipelineVars, ent, valVars, toolVars, repoVars>>

\* after the loop: unlink the verification file, then throw
Gen_Exhausted ==
  /\ gen.pc = "exhausted"
  /\ files' = [files EXCEPT ![tempTestFilePath(gen.suffix)] = Absent]
  /\ gen' = GenThrow(gen, MsgExhausted(gen.source, MAX_ATTEMPTS,
                                       gen.currentError))
  /\ UNCHANGED <<now, pipelineVars, ent, valVars, toolVars, repoVars>>

GenNext ==
  \/ Gen_Start
  \/ Gen_Gather
  \/ Gen_WritePrompt
  \/ Gen_RunCli
  \/ Gen_WriteVerification
  \/ Gen_Validate
  \/ Gen_Exhausted

GenSpec == GenInit /\ [][GenNext]_vars

\* every await of the call settles: the call keeps running while it can
GenFairSpec == GenSpec /\ WF_vars(GenNext)

(* ---------------------------------------------------------------------- *)
(* One call of generateTest for any target test path, the ones the         *)
(* pattern of the verification path does not match included                *)
(* ---------------------------------------------------------------------- *)
GenAnyInit ==
  /\ now = 0
  /\ jobStore = <<>>
  /\ queue = <<>>
  /\ deliveries = [j \in JobIds |-> 0]
  /\ pc = [j \in JobIds |-> "idle"]
  /\ mem = [j \in JobIds |-> BlankJob]
  /\ localRepoPath = [j \in JobIds |-> NoPath]
  /\ thrown = [j \in JobIds |-> Undefined]
  /\ events = [j \in JobIds |-> <<>>]
  /\ cloneDirs = {}
  /\ ent = create(1, "https://github.com/o/r", "src/svc.ts", 0)
  /\ \E source \in GenSources, suffix \in TargetSuffixes,
        before \in {Absent, OldTest} :
          gen = GenCall(source, suffix, before)
  /\ files = [p \in GenPaths |-> IF p = gen.suffix THEN gen.before ELSE Absent]
  /\ val = ValCall(QuietTsc, QuietJest, DefaultTargetCoverage)
  /\ RepoInit
  /\ ToolsIdle

GenAnySpec == GenAnyInit /\ [][GenNext]_vars

(* ---------------------------------------------------------------------- *)
(* One call of validateTest, for every compiler output, runner output,    *)
(* coverage map and target                                                 *)
(* ---------------------------------------------------------------------- *)
ValInit ==
  /\ Idle
  /\ ToolsIdle
  /\ RepoInit
  /\ \E tsc \in TscResults, jest \in JestResults,
        targetCoverage \in TargetCoverages, fault \in ValFaults :
          val = [ValCall(tsc, jest, targetCoverage) EXCEPT !.fault = fault]

ValReturn(result) == [val EXCEPT !.pc = "returned", !.result = result]

\* a validator that fails every run whose runner exited non-zero
ExecutionError_OnExitStatus(jest) == ~jest.success

\* if (!cleanJson.includes('"coverageMap"')) { if (!jestResult.success) ...
ExecutionError(jest) == jest.payload \notin {"cut", "map"} /\ ~jest.success

\* the outer catch: any exception becomes a failed result
SystemError == ValidationResult(FALSE, "System error during validation", Zero)

\* Step A: tsconfig.validation.json is written and the compiler runs; a
\* failed run with a fatal line returns
Val_Compile ==
  /\ val.pc = "compile"
  /\ LET wrote == [val EXCEPT !.scratch = writeFile(@, TsconfigValidation)]
     IN val' = IF val.fault = "tsc"
                 THEN [wrote EXCEPT !.pc = "returned", !.result = SystemError]
                 ELSE IF ~val.tsc.success /\ isFatalTscError(val.tsc.output)
                   THEN [wrote EXCEPT !.pc = "returned",
                                      !.result = ValidationResult(
                                        FALSE, "TSC (Compilation) Error", Zero)]
                   ELSE [wrote EXCEPT !.pc = "execute"]
  /\ UNCHANGED <<now, pipelineVars, ent, genVars, repoVars, toolVars>>

\* Step B: jest.config.verification.js is written, the runner runs and the
\* config is unlinked; a failed run without a coverage map returns
Val_Execute ==
  /\ val.pc = "execute"
  /\ LET wrote == [val EXCEPT !.scratch = writeFile(@, JestConfigVerification),
                              !.runnerCalls = @ + 1]
         ran == [wrote EXCEPT !.scratch = unlink(@, JestConfigVerification)]
     IN val' = IF val.fault = "jest"
                 THEN [wrote EXCEPT !.pc = "returned", !.result = SystemError]
                 ELSE IF ExecutionError(val.jest)
                   THEN [ran EXCEPT !.pc = "returned",
                                    !.result = ValidationResult(
                                      FALSE, "Jest (Execution) Error", Zero)]
                   ELSE [ran EXCEPT !.pc = "coverage"]
  /\ UNCHANGED <<now, pipelineVars, ent, genVars, repoVars, toolVars>>

\* Step C: the coverage of the source file is held against the target
Val_Coverage ==
  /\ val.pc = "coverage"
  /\ val' = ValReturn(CoverageVerification(val.jest, val.targetCoverage))
  /\ UNCHANGED <<now, pipelineVars, ent, genVars, repoVars, toolVars>>

ValNext == Val_Compile \/ Val_Execute \/ Val_Coverage

ValSpec == ValInit /\ [][ValNext]_vars

(* ---------------------------------------------------------------------- *)
(* The API commands on tracked repositories and the scan consumer         *)
(* ---------------------------------------------------------------------- *)
\* time passes: the clock is seen only through the stamps it leaves, so it
\* moves on only from an instant that some scan job or stored job carries
Repo_Tick ==
  /\ now < MaxClock
  /\ \/ \E k \in scanKeys : k[2] = now
     \/ \E j \in DOMAIN jobStore : jobStore[j].updatedAt = now
  /\ now' = now + 1
  /\ UNCHANGED <<pipelineVars, ent, genVars, valVars, toolVars, repoVars>>

Finish(q, status) == [q EXCEPT !.pc = "done", !.status = status]

InFlight(r) == req[r].pc \notin {"idle", "done"}

\* requests are numbered in the order of their arrival
NextRequest(r) == req[r].pc = "idle" /\ \A s \in ReqIds : s < r => req[s].pc # "idle"

\* ApiController.addRepo: a missing repositoryUrl is rejected, else
\* TrackedRepositoryService.addRepository(url) is called
Req_AddRepo(r) ==
  /\ NextRequest(r)
  /\ \E url \in TrackedUrls \cup {Undefined} :
       LET q == [req[r] EXCEPT !.kind = "addRepo", !.url = url]
       IN req' = [req EXCEPT ![r] =
                    IF ~Truthy(url)
                      THEN Finish(q, "rejected")
                      ELSE [q EXCEPT !.pc = "findByUrl", !.called = TRUE]]
  /\ UNCHANGED <<now, pipelineVars, ent, genVars, valVars, toolVars, repoStore,
                 scanKeys, scanQueue, scan>>

\* ApiController.scanRepo: TrackedRepositoryService.enqueueScan(id)
Req_ScanRepo(r) ==
  /\ NextRequest(r)
  /\ \E id \in RepoIds :
       req' = [req EXCEPT ![r] =
                 [@ EXCEPT !.kind = "scanRepo", !.id = id,
                           !.pc = "enqueueScan", !.called = TRUE]]
  /\ UNCHANGED <<now, pipelineVars, ent, genVars, valVars, toolVars, repoStore,
                 scanKeys, scanQueue, scan>>

\* ApiController.createJob: a missing repositoryUrl or filePath is
\* rejected, else JobOrchestrationService.createJob is called
Req_CreateJob(r) ==
  /\ NextRequest(r)
  /\ \E url \in RepoUrls \cup {Undefined}, file \in FilePaths \cup {Undefined} :
       LET q == [req[r] EXCEPT !.kind = "createJob", !.url = url,
                               !.file = file]
       IN req' = [req EXCEPT ![r] =
                    IF ~Truthy(url) \/ ~Truthy(file)
                      THEN Finish(q, "rejected")
                      ELSE [q EXCEPT !.pc = "createJob", !.called = TRUE]]
  /\ UNCHANGED <<now, pipelineVars, ent, genVars, valVars, toolVars, repoStore,
                 scanKeys, scanQueue, scan>>

\* JobOrchestrationService.createJob for the request: the job is created
\* and saved
Req_JobService(r) ==
  /\ req[r].pc = "createJob"
  /\ \E j \in JobIds :
       /\ j \notin DOMAIN jobStore
       /\ \A k \in JobIds : k < j => k \in DOMAIN jobStore
       /\ jobStore' = save(jobStore, create(j, req[r].url, req[r].file, now))
       /\ req' = [req EXCEPT ![r] =
                    [@ EXCEPT !.id = j, !.saves = @ + 1, !.pc = "queue.add"]]
  /\ UNCHANGED <<now, queue, deliveries, pc, mem, localRepoPath, thrown,
                 events, cloneDirs, ent, genVars, valVars, toolVars, repoStore, scanKeys,
                 scanQueue, scan>>

\* createJob: queue.add('improve-coverage', {jobId}, {jobId}) resolves, or
\* rejects when the broker cannot be reached and the request fails
Req_JobAdd(r) ==
  /\ req[r].pc = "queue.add"
  /\ \E ok \in BOOLEAN :
       IF ok
         THEN /\ queue' = Append(queue, req[r].id)
              /\ req' = [req EXCEPT ![r] =
                           Finish([@ EXCEPT !.adds = @ + 1], "ok")]
         ELSE /\ UNCHANGED queue
              /\ req' = [req EXCEPT ![r] = Finish(@, "error")]
  /\ UNCHANGED <<now, jobStore, deliveries, pc, mem, localRepoPath, thrown,
                 events, cloneDirs, ent, genVars, valVars, toolVars, repoStore, scanKeys,
                 scanQueue, scan>>

\* addRepository: a tracked url is returned as it is
Req_FindByUrl(r) ==
  /\ req[r].pc = "findByUrl"
  /\ LET repo == findByUrl(repoStore, req[r].url)
     IN req' = [req EXCEPT ![r] =
                  IF repo # NoRepo
                    THEN Finish([@ EXCEPT !.id = repo.id], "ok")
                    ELSE [@ EXCEPT !.pc = "hasRequiredDependencies"]]
  /\ UNCHANGED <<now, pipelineVars, ent, genVars, valVars, toolVars, repoStore,
                 scanKeys, scanQueue, scan>>

\* addRepository: the repository must declare jest and ts-jest
Req_HasRequiredDependencies(r) ==
  /\ req[r].pc = "hasRequiredDependencies"
  /\ \E hasDeps \in BOOLEAN :
       LET q == [req[r] EXCEPT !.checks = @ + 1,
                               !.hasDeps = IF hasDeps THEN "present"
                                                      ELSE "missing"]
       IN req' = [req EXCEPT ![r] =
                    IF DependenciesMissing(hasDeps)
                      THEN Finish(q, "rejected")
                      ELSE [q EXCEPT !.pc = "save", !.id = r]]
  /\ UNCHANGED <<now, pipelineVars, ent, genVars, valVars, toolVars, repoStore,
                 scanKeys, scanQueue, scan>>

\* addRepository: TrackedRepository.create(uuidv4(), url) is saved; the
\* insert fails when another row holds the url
Req_Save(r) ==
  /\ req[r].pc = "save"
  /\ LET repo == createTracked(req[r].id, req[r].url)
     IN IF UniqueViolation(repoStore, repo)
          THEN /\ req' = [req EXCEPT ![r] = Finish(@, "error")]
               /\ UNCHANGED repoStore
          ELSE /\ repoStore' = saveRepository(repoStore, repo)
               /\ req' = [req EXCEPT ![r] =
                            [@ EXCEPT !.saves = @ + 1, !.pc = "enqueueScan"]]
  /\ UNCHANGED <<now, pipelineVars, ent, genVars, valVars, toolVars, scanKeys,
                 scanQueue, scan>>

\* enqueueScan: the repository must exist
Req_EnqueueScan(r) ==
  /\ req[r].pc = "enqueueScan"
  /\ req' = [req EXCEPT ![r] =
               IF findRepositoryById(repoStore, req[r].id) = NoRepo
                 THEN Finish(@, "rejected")
                 ELSE [@ EXCEPT !.pc = "add"]]
  /\ UNCHANGED <<now, pipelineVars, ent, genVars, valVars, toolVars, repoStore,
                 scanKeys, scanQueue, scan>>

\* enqueueScan: scanQueue.add('scan-repo', {repoId}, {jobId}); the queue
\* ignores the add of a job id it knows
Req_Add(r) ==
  /\ req[r].pc = "add"
  /\ LET job == ScanJob(req[r].id, now)
     IN /\ scanKeys' = scanKeys \cup {job}
        /\ scanQueue' = IF job \in scanKeys THEN scanQueue
                                            ELSE Append(scanQueue, job)
  /\ req' = [req EXCEPT ![r] =
               Finish([@ EXCEPT !.adds = @ + 1, !.addedAt = now], "ok")]
  /\ UNCHANGED <<now, pipelineVars, ent, genVars, valVars, toolVars, repoStore, scan>>

StartStep == \E r \in ReqIds : Req_AddRepo(r) \/ Req_ScanRepo(r) \/ Req_CreateJob(r)

ServiceStep ==
  \E r \in ReqIds :
    \/ Req_JobService(r)
    \/ Req_JobAdd(r)
    \/ Req_FindByUrl(r)
    \/ Req_HasRequiredDependencies(r)
    \/ Req_Save(r)
    \/ Req_EnqueueScan(r)
    \/ Req_Add(r)

ScanRunning == {k \in ScanJobs : scan[k].pc \notin {"none", "completed", "failed"}}

\* the worker takes the oldest waiting scan job when it has a free slot
Scan_Process ==
  /\ Len(scanQueue) > 0
  /\ Cardinality(ScanRunning) < ScanConcurrency
  /\ LET k == Head(scanQueue)
     IN scan' = [scan EXCEPT ![k] =
                   [NoRun EXCEPT !.pc = "findById",
                                 !.attemptsMade = scan[k].attemptsMade + 1]]
  /\ scanQueue' = Tail(scanQueue)
  /\ UNCHANGED <<now, pipelineVars, ent, genVars, valVars, toolVars, repoStore,
                 scanKeys, req>>

\* process: an unknown repo id is logged and the job completes
Scan_FindById(k) ==
  /\ scan[k].pc = "findById"
  /\ LET repo == findRepositoryById(repoStore, k[1])
     IN scan' = [scan EXCEPT ![k] =
                   IF repo = NoRepo THEN [@ EXCEPT !.pc = "completed"]
                   ELSE [@ EXCEPT !.pc = "cloneRepository", !.repo = repo]]
  /\ UNCHANGED <<now, pipelineVars, ent, genVars, valVars, toolVars, repoStore,
                 scanKeys, scanQueue, req>>

\* localPath = await cloneRepository(repo.url)
Scan_Clone(k) ==
  /\ scan[k].pc = "cloneRepository"
  /\ \E ok \in BOOLEAN :
       scan' = [scan EXCEPT ![k] =
                  IF ok THEN [@ EXCEPT !.pc = "scanCoverage", !.localPath = TRUE]
                  ELSE [@ EXCEPT !.pc = "catch", !.failedAt = "cloneRepository"]]
  /\ UNCHANGED <<now, pipelineVars, ent, genVars, valVars, toolVars, repoStore,
                 scanKeys, scanQueue, req>>

\* coverage = await scanCoverage(localPath)
Scan_Coverage(k) ==
  /\ scan[k].pc = "scanCoverage"
  /\ \/ \E report \in ScanReports :
          scan' = [scan EXCEPT ![k] =
                     [@ EXCEPT !.pc = "save", !.coverage = report]]
     \/ scan' = [scan EXCEPT ![k] =
                   [@ EXCEPT !.pc = "catch", !.failedAt = "scanCoverage"]]
  /\ UNCHANGED <<now, pipelineVars, ent, genVars, valVars, toolVars, repoStore,
                 scanKeys, scanQueue, req>>

\* repo.updateCoverage(coverage); await save(repo)
Scan_Save(k) ==
  /\ scan[k].pc = "save"
  /\ repoStore' = saveRepository(repoStore,
                                 updateCoverage(scan[k].repo, scan[k].coverage))
  /\ scan' = [scan EXCEPT ![k] = [@ EXCEPT !.pc = "finally", !.saves = @ + 1]]
  /\ UNCHANGED <<now, pipelineVars, ent, genVars, valVars, toolVars, scanKeys,
                 scanQueue, req>>

\* catch (err) { log; throw err }
Scan_Catch(k) ==
  /\ scan[k].pc = "catch"
  /\ scan' = [scan EXCEPT ![k] = [@ EXCEPT !.pc = "finally", !.rethrown = TRUE]]
  /\ UNCHANGED <<now, pipelineVars, ent, genVars, valVars, toolVars, repoStore,
                 scanKeys, scanQueue, req>>

\* a finally block that cleans up whether or not a clone exists
Scan_Finally_AlwaysCleans(k) ==
  /\ scan[k].pc = "finally"
  /\ scan' = [scan EXCEPT ![k] =
                [@ EXCEPT !.pc = IF scan[k].rethrown THEN "failed"
                                                     ELSE "completed",
                          !.cleanups = @ + 1]]
  /\ UNCHANGED <<now, pipelineVars, ent, genVars, valVars, toolVars, repoStore,
                 scanKeys, scanQueue, req>>

\* finally { if (localPath) cleanupLocalRepository(localPath).catch(log) }
Scan_Finally(k) ==
  /\ scan[k].pc = "finally"
  /\ scan' = [scan EXCEPT ![k] =
                [@ EXCEPT !.pc = IF scan[k].rethrown THEN "failed"
                                                     ELSE "completed",
                          !.cleanups = IF scan[k].localPath THEN @ + 1 ELSE @]]
  /\ UNCHANGED <<now, pipelineVars, ent, genVars, valVars, toolVars, repoStore,
                 scanKeys, scanQueue, req>>

\* the queue retries a failed job until its attempts are used up
Scan_Retry(k) ==
  /\ scan[k].pc = "failed"
  /\ scan[k].attemptsMade < Attempts
  /\ scan' = [scan EXCEPT ![k] = [@ EXCEPT !.pc = "waiting"]]
  /\ scanQueue' = Append(scanQueue, k)
  /\ UNCHANGED <<now, pipelineVars, ent, genVars, valVars, toolVars, repoStore,
                 scanKeys, req>>

ScanStep ==
  \/ Scan_Process
  \/ \E k \in ScanJobs :
       \/ Scan_FindById(k)
       \/ Scan_Clone(k)
       \/ Scan_Coverage(k)
       \/ Scan_Save(k)
       \/ Scan_Catch(k)
       \/ Scan_Finally(k)
       \/ Scan_Retry(k)

RepoStart ==
  /\ Idle
  /\ ToolsIdle
  /\ val = ValCall(QuietTsc, QuietJest, DefaultTargetCoverage)
  /\ RepoInit

RepoNext == Repo_Tick \/ StartStep \/ ServiceStep

RepoSpec == RepoStart /\ [][RepoNext]_vars

\* the commands arrive one after the other: a request is sent when the
\* response to the one before it has arrived
SeqStartStep == (\A r \in ReqIds : ~InFlight(r)) /\ StartStep

RepoSeqNext == Repo_Tick \/ SeqStartStep \/ ServiceStep

RepoSeqSpec == RepoStart /\ [][RepoSeqNext]_vars

\* the scan consumer at work on a tracked repository that has not been
\* measured yet, with the scan jobs enqueued for it so far
ScanInit ==
  /\ Idle
  /\ ToolsIdle
  /\ val = ValCall(QuietTsc, QuietJest, DefaultTargetCoverage)
  /\ repoStore = {createTracked(1, "https://github.com/o/r")}
  /\ \E ats \in SUBSET (0..MaxClock) :
       /\ ats # {}
       /\ scanKeys = {ScanJob(1, at) : at \in ats}
       /\ scanQueue = [i \in 1..Cardinality(ats) |->
                         ScanJob(1, CHOOSE at \in ats :
                                      Cardinality({b \in ats : b < at}) = i - 1)]
  /\ scan = [k \in ScanJobs |-> NoRun]
  /\ req = [r \in ReqIds |-> NoRequest]

ScanSpec == ScanInit /\ [][ScanStep]_vars

(* ---------------------------------------------------------------------- *)
(* One call of runCommand, for every order of the child's events and the  *)
(* timer                                                                   *)
(* ---------------------------------------------------------------------- *)
CmdInit ==
  /\ Idle
  /\ val = ValCall(QuietTsc, QuietJest, DefaultTargetCoverage)
  /\ RepoInit
  /\ cmd = CmdCall
  /\ cov = CovIdle
  /\ host = HostIdle

First(c, event) == [c EXCEPT !.first = IF @ = "none" THEN event ELSE @]

\* child.stdout.on('data') / child.stderr.on('data'): output += data
Cmd_Data ==
  /\ ~cmd.closed
  /\ Len(cmd.output) < MaxChunks
  /\ \E data \in Chunks : cmd' = [cmd EXCEPT !.output = Append(@, data)]
  /\ UNCHANGED <<now, pipelineVars, ent, genVars, valVars, repoVars, cov, host>>

\* the timer fires: the child is killed and the call resolves with the
\* output so far and the marker
Cmd_Timeout ==
  /\ cmd.timer = "armed"
  /\ cmd' = resolve(First([cmd EXCEPT !.timer = "fired", !.killed = TRUE],
                          "timeout"),
                    [success |-> FALSE, output |-> Append(cmd.output, TIMEOUT)])
  /\ UNCHANGED <<now, pipelineVars, ent, genVars, valVars, repoVars, cov, host>>

\* child.on('close'): the timer is cleared and the call resolves with the
\* exit code's verdict and the trimmed output
Cmd_Close ==
  /\ ~cmd.closed
  /\ \E code \in ExitCodes :
       /\ (code = -1) => cmd.killed
       /\ cmd' = resolve(First([cmd EXCEPT
                                  !.closed = TRUE,
                                  !.code = code,
                                  !.timer = IF @ = "armed" THEN "cleared" ELSE @],
                               "close"),
                         [success |-> code = 0, output |-> trim(cmd.output)])
  /\ UNCHANGED <<now, pipelineVars, ent, genVars, valVars, repoVars, cov, host>>

\* child.on('error'): the timer is cleared and the call resolves with the
\* error's message
Cmd_Error ==
  /\ ~cmd.errored
  /\ ~cmd.closed
  /\ cmd' = resolve(First([cmd EXCEPT
                             !.errored = TRUE,
                             !.timer = IF @ = "armed" THEN "cleared" ELSE @],
                          "error"),
                    [success |-> FALSE, output |-> <<ErrMessage>>])
  /\ UNCHANGED <<now, pipelineVars, ent, genVars, valVars, repoVars, cov, host>>

CmdNext == Cmd_Data \/ Cmd_Timeout \/ Cmd_Close \/ Cmd_Error

CmdSpec == CmdInit /\ [][CmdNext]_vars

\* the event loop runs every callback that is due
CmdFairSpec == CmdSpec /\ WF_vars(CmdNext)

(* ---------------------------------------------------------------------- *)
(* One call of scanCoverage, for every clone, test run and summary        *)
(* ---------------------------------------------------------------------- *)
CovInit ==
  /\ Idle
  /\ val = ValCall(QuietTsc, QuietJest, DefaultTargetCoverage)
  /\ RepoInit
  /\ cmd = CmdCall
  /\ host = HostIdle
  /\ \E install \in Installs, hasExistingConfig \in BOOLEAN, jest \in JestRuns,
        summary \in Summaries, tree \in Trees :
          cov = CovCall(install, hasExistingConfig, jest, summary, tree)

\* 1. the dependencies are installed when node_modules is missing
Cov_Install ==
  /\ cov.pc = "install"
  /\ cov' = IF cov.install = "present"
              THEN [cov EXCEPT !.pc = "config"]
              ELSE [cov EXCEPT
                      !.commands = Append(@, executeCommand("install")),
                      !.pc = IF cov.install = "ok" THEN "config" ELSE "catch"]
  /\ UNCHANGED <<now, pipelineVars, ent, genVars, valVars, repoVars, cmd, host>>

\* 3. a repository without a jest config gets the temporary one
Cov_Config ==
  /\ cov.pc = "config"
  /\ cov' = IF cov.hasExistingConfig
              THEN [cov EXCEPT !.pc = "jest"]
              ELSE [cov EXCEPT !.pc = "jest", !.wroteConfig = TRUE,
                               !.configFile = TRUE]
  /\ UNCHANGED <<now, pipelineVars, ent, genVars, valVars, repoVars, cmd, host>>

\* 4. jest runs with coverage; a rejection that is a test failure is
\* logged, every other rejection is thrown on
Cov_Jest ==
  /\ cov.pc = "jest"
  /\ cov' = [cov EXCEPT
               !.commands = Append(@, executeCommand("jest")),
               !.pc = IF cov.jest = "ok" \/ isTestFailure(cov.jest)
                        THEN "parse" ELSE "catch"]
  /\ UNCHANGED <<now, pipelineVars, ent, genVars, valVars, repoVars, cmd, host>>

\* 5. the summary is parsed; without a summary, or without an entry that
\* survives, the walk of the source files at 0% is returned
Cov_Parse ==
  /\ cov.pc = "parse"
  /\ cov' =
       CASE cov.summary.kind = "absent" ->
              [cov EXCEPT !.pc = "finally", !.fallback = TRUE,
                          !.results = FallbackResults(cov.tree)]
         [] cov.summary.kind = "unparseable" ->
              [cov EXCEPT !.pc = "catch"]
         [] OTHER ->
              IF ParsedResults(cov.summary.entries) = {}
                THEN [cov EXCEPT !.pc = "finally", !.fallback = TRUE,
                                 !.results = FallbackResults(cov.tree)]
                ELSE [cov EXCEPT !.pc = "finally",
                                 !.results = ParsedResults(cov.summary.entries)]
  /\ UNCHANGED <<now, pipelineVars, ent, genVars, valVars, repoVars, cmd, host>>

\* catch: the error is logged and thrown as `Coverage scanning failed`
Cov_Catch ==
  /\ cov.pc = "catch"
  /\ cov' = [cov EXCEPT !.pc = "finally threw"]
  /\ UNCHANGED <<now, pipelineVars, ent, genVars, valVars, repoVars, cmd, host>>

\* finally: the injected config file is removed
Cov_Finally ==
  /\ cov.pc \in {"finally", "finally threw"}
  /\ cov' = [cov EXCEPT
               !.pc = IF cov.pc = "finally" THEN "returned" ELSE "threw",
               !.configFile = IF cov.wroteConfig THEN FALSE ELSE @]
  /\ UNCHANGED <<now, pipelineVars, ent, genVars, valVars, repoVars, cmd, host>>

CovNext ==
  \/ Cov_Install
  \/ Cov_Config
  \/ Cov_Jest
  \/ Cov_Parse
  \/ Cov_Catch
  \/ Cov_Finally

CovSpec == CovInit /\ [][CovNext]_vars

(* ---------------------------------------------------------------------- *)
(* One call of hasRequiredDependencies, checkPermissions or                *)
(* createPullRequest, for every URL, with and without a token              *)
(* ---------------------------------------------------------------------- *)
HostInit ==
  /\ Idle
  /\ val = ValCall(QuietTsc, QuietJest, DefaultTargetCoverage)
  /\ RepoInit
  /\ cmd = CmdCall
  /\ cov = CovIdle
  /\ \E op \in HostOps, url \in HostUrls, token \in BOOLEAN,
        answer \in ProviderAnswers :
          host = HostCall(op, url, token, answer)

HostReturn(value) == [host EXCEPT !.pc = "returned", !.value = value]

HostThrow(message) == [host EXCEPT !.pc = "threw", !.value = message]

HostAsk == [host EXCEPT !.pc = "provider", !.providerCalls = @ + 1]

\* hasRequiredDependencies: the URL is matched, then getContent is called
Host_HasRequiredDependencies ==
  /\ host.pc = "called" /\ host.op = "hasRequiredDependencies"
  /\ host' = IF match(host.url) = NoMatch THEN HostThrow(MsgInvalidUrl)
             ELSE HostAsk
  /\ UNCHANGED <<now, pipelineVars, ent, genVars, valVars, repoVars, cmd, cov>>

\* checkPermissions: without a token true is returned at once; then the URL
\* is matched, then repos.get is called
Host_CheckPermissions ==
  /\ host.pc = "called" /\ host.op = "checkPermissions"
  /\ host' = IF ~host.token THEN HostReturn(Bool(checkPermissions(FALSE, "error")))
             ELSE IF match(host.url) = NoMatch THEN HostThrow(MsgInvalidUrl)
             ELSE HostAsk
  /\ UNCHANGED <<now, pipelineVars, ent, genVars, valVars, repoVars, cmd, cov>>

\* createPullRequest: the URL is matched; without a token the mock link is
\* returned; else pulls.create is called
Host_CreatePullRequest ==
  /\ host.pc = "called" /\ host.op = "createPullRequest"
  /\ host' = IF match(host.url) = NoMatch THEN HostThrow(MsgInvalidUrl)
             ELSE IF ~host.token THEN HostReturn(createPullRequest(FALSE))
             ELSE HostAsk
  /\ UNCHANGED <<now, pipelineVars, ent, genVars, valVars, repoVars, cmd, cov>>

\* the provider answers: the two checks turn a rejection into false,
\* createPullRequest lets it through
Host_Respond ==
  /\ host.pc = "provider"
  /\ host' =
       CASE host.op = "hasRequiredDependencies" ->
              HostReturn(Bool(host.answer = "yes"))
         [] host.op = "checkPermissions" ->
              HostReturn(Bool(checkPermissions(
                host.token,
                CASE host.answer = "yes" -> "push"
                  [] host.answer = "no" -> "pull"
                  [] OTHER -> "error")))
         [] OTHER ->
              IF host.answer = "yes" THEN HostReturn(createPullRequest(host.token))
              ELSE HostThrow(MsgProvider)
  /\ UNCHANGED <<now, pipelineVars, ent, genVars, valVars, repoVars, cmd, cov>>

HostNext ==
  \/ Host_HasRequiredDependencies
  \/ Host_CheckPermissions
  \/ Host_CreatePullRequest
  \/ Host_Respond

HostSpec == HostInit /\ [][HostNext]_vars

(* ---------------------------------------------------------------------- *)
(* Properties                                                              *)
(* ---------------------------------------------------------------------- *)
HappyPath == <<CLONING, ANALYZING, GENERATING, PUSHING, PR_CREATED>>

IsStatus(e) == e \in JobStatus

\* the statuses one run of execute persisted, in order
Saves(j) == SelectSeq(events[j], IsStatus)

IsPrefix(s, t) == Len(s) <= Len(t) /\ \A i \in 1..Len(s) : s[i] = t[i]

Occurrences(seq, e) == Cardinality({i \in 1..Len(seq) : seq[i] = e})

Occurs(seq, e) == \E i \in 1..Len(seq) : seq[i] = e

\* the status persisted last before the i-th event of the run
SavedBefore(j, i) ==
  LET earlier == {k \in 1..(i - 1) : IsStatus(events[j][k])} IN
    IF earlier = {} THEN QUEUED
    ELSE events[j][CHOOSE k \in earlier : \A m \in earlier : m <= k]

\* the status that must be on record when a collaborator is called
StatusOfAction(e) ==
  CASE e = "cloneRepository" -> CLONING
    [] e = "generateTest" -> GENERATING
    [] e = "commitAndPushChanges" -> PUSHING
    [] e = "createPullRequest" -> PUSHING
    [] OTHER -> Undefined

Stored(j) == j \in DOMAIN jobStore

\* C1: the statuses one run of execute persists are a prefix of CLONING,
\* ANALYZING, GENERATING, PUSHING, PR_CREATED, optionally followed by one
\* FAILED; clone, generate, push and create-pull-request are called only
\* with their step's status already persisted; a run in which nothing
\* throws persists exactly the five statuses, in this order.
C1_PersistedStatusSequence ==
  \A j \in JobIds :
    LET s == Saves(j) IN
      /\ \/ IsPrefix(s, HappyPath)
         \/ /\ Len(s) >= 1
            /\ s[Len(s)] = FAILED
            /\ IsPrefix(SubSeq(s, 1, Len(s) - 1), HappyPath)
      /\ \A i \in 1..Len(events[j]) :
           StatusOfAction(events[j][i]) # Undefined
             => SavedBefore(j, i) = StatusOfAction(events[j][i])
      /\ (pc[j] = "done" /\ Stored(j) /\ thrown[j] = Undefined)
           => s = HappyPath

C1_Witness ==
  \E j \in JobIds :
    pc[j] = "done" /\ Saves(j) = HappyPath /\ jobStore[j].status = PR_CREATED

\* C2: once a job's persisted status is PR_CREATED or FAILED, no step
\* changes it, a second delivery of the job id included.
C2_TerminalStatusIsFinal ==
  [][\A j \in DOMAIN jobStore :
       jobStore[j].status \in TerminalStatuses
         => jobStore'[j].status = jobStore[j].status]_vars

\* a second delivery has moved a job whose first run had ended back to CLONING
C2_Witness ==
  \E j \in JobIds :
    deliveries[j] > 1 /\ pc[j] = "checkPermissions"
      /\ jobStore[j].status = CLONING

\* C3: a job whose status is PR_CREATED has a non-empty pr_link, for every
\* sequence of updateStatus calls.
C3_PrCreatedHasLink == ent.status = PR_CREATED => Truthy(ent.prLink)

C3_Witness == ent.status = PR_CREATED /\ ent.prLink = Undefined

\* C4: a job whose status is FAILED has a non-empty error_message, for
\* every sequence of updateStatus calls.
C4_FailedHasMessage == ent.status = FAILED => Truthy(ent.errorMessage)

C4_Witness == ent.status = FAILED /\ ent.errorMessage = Undefined

\* C5: every transition of a job leaves updatedAt strictly greater than it
\* was before the transition (create's stamp before the first one), however
\* close in time the two are.
C5_UpdatedAtStrictlyIncreases ==
  [][ent' # ent => ent'.updatedAt > ent.updatedAt]_vars

\* a job that has left QUEUED and still carries the stamp create gave it
C5_Witness == ent.status = CLONING /\ ent.updatedAt = ent.createdAt

\* C6: every job the consumer dequeues is eventually persisted as
\* PR_CREATED or FAILED with its run over; none stays in CLONING,
\* ANALYZING, GENERATING or PUSHING.
C6_DequeuedJobReachesTerminal ==
  \A j \in JobIds :
    (pc[j] = "findById")
      ~> (pc[j] = "done" /\ Stored(j)
          /\ jobStore[j].status \in TerminalStatuses)

C6_Witness ==
  \E j \in JobIds :
    /\ pc[j] = "done"
    /\ jobStore[j].status = FAILED
    /\ Occurs(events[j], GENERATING)

\* a clone directory of job j exists on disk
Held(j) == TmpDir(j) \in cloneDirs

\* C7: at most one improvement job holds a clone directory at any instant,
\* and no job's clone starts while another job holds one.
C7_OneCloneAtATime ==
  \A j, k \in JobIds :
    j # k => ~(Held(j) /\ (Held(k) \/ pc[k] = "clone"))

C7_Witness ==
  \E j, k \in JobIds :
    j # k /\ Held(j) /\ queue # <<>> /\ Head(queue) = k

\* the clone of the run returned a path
CloneReturned(j) ==
  Occurs(events[j], "cloneRepository") /\ ~Occurs(events[j], "clone rejected")

\* C8: a finished run has called cleanup exactly once when its clone
\* returned and not at all otherwise (a clone that threw, or a failure
\* before the clone); cleanup is never called before the clone returned,
\* and a cleanup that fails leaves the persisted outcome as it was.
C8_CleanupIffCloned ==
  \A j \in JobIds :
    /\ Occurs(events[j], "cleanupLocalRepository") => CloneReturned(j)
    /\ (pc[j] = "done" /\ Stored(j))
         => /\ Occurrences(events[j], "cleanupLocalRepository")
                 = (IF CloneReturned(j) THEN 1 ELSE 0)
            /\ jobStore[j].status \in TerminalStatuses
            /\ jobStore[j].status = Saves(j)[Len(Saves(j))]

C8_Witness ==
  \E j \in JobIds :
    /\ pc[j] = "done"
    /\ Occurs(events[j], "rm rejected")
    /\ jobStore[j].status = FAILED
    /\ Occurs(events[j], PUSHING)

\* C9: a run whose permission check returned false ends with the job
\* persisted as FAILED with the message "Insufficient permissions", has
\* not called clone, and leaves no clone directory of its own.
C9_PermissionDenied ==
  \A j \in JobIds :
    (pc[j] = "done" /\ Occurs(events[j], "permission denied"))
      => /\ jobStore[j].status = FAILED
         /\ jobStore[j].errorMessage = MsgPermissions
         /\ ~Occurs(events[j], "cloneRepository")
         /\ ~Held(j)

C9_Witness ==
  \E j \in JobIds :
    pc[j] = "done" /\ Occurs(events[j], "permission denied")

\* every CLI call of the ended call produced code and every validation of
\* that code failed
ValidatorFailedEveryAttempt ==
  /\ gen.pc = "threw"
  /\ gen.cliCalls >= 1
  /\ Len(gen.validations) = gen.cliCalls
  /\ \A i \in 1..Len(gen.validations) : ~gen.validations[i].success

C11_CliErrorFailsOnlyTheAttempt ==
  (gen.pc = "threw" /\ gen.error = MsgCli("error"))
    => gen.cliCalls = MAX_ATTEMPTS

\* the call has failed on the error its first CLI response carried
C11_Witness ==
  gen.pc = "threw" /\ gen.error = MsgCli("error") /\ gen.cliCalls = 1

\* the call is over: it returned or it threw
GenEnded == gen.pc \in {"returned", "threw"}

\* C12: a call invokes the CLI at most 3 times and the validator at most 3
\* times, the validator at most once per CLI invocation and only after
\* it, and the call ends (returns or throws).
C12_BoundedAttemptsAndTermination ==
  /\ [](/\ gen.cliCalls <= 3
        /\ Len(gen.validations) <= 3
        /\ Len(gen.validations) <= gen.cliCalls
        /\ (gen.pc = "validate" => Len(gen.validations) + 1 = gen.cliCalls))
  /\ <>GenEnded

\* a call that returned on its third attempt
C12_Witness ==
  /\ gen.pc = "returned"
  /\ gen.cliCalls = MAX_ATTEMPTS
  /\ Len(gen.validations) = MAX_ATTEMPTS

\* C13: whenever validateTest returns success = true, the measured coverage
\* it returns is at least the target coverage, whatever the compiler and the
\* runner printed and whatever shape the coverage entry has
C13_SuccessMeetsTarget ==
  (val.pc = "returned" /\ val.result.success)
    => val.result.coverage.n >= val.targetCoverage * val.result.coverage.d

\* a successful return on a hits map without a published pct, measured
\* exactly at the target
C13_Witness ==
  /\ val.pc = "returned"
  /\ val.result.success
  /\ val.jest.stats.kind = "hits"
  /\ val.targetCoverage = DefaultTargetCoverage
  /\ val.result.coverage = Fraction(400, 5)

\* a diagnostic whose own code is outside the ignorable set
HasFatalCode(output) ==
  \E line \in output : isError(line) /\ line.code \notin IgnorableCodes

\* C14: validateTest invokes the runner if and only if the compiler printed
\* no `error TS<code>` line with a code outside the ignorable set; such a
\* line ends the call with success = false before the runner is invoked
C14_RunnerIffNoFatalCode ==
  (val.pc = "returned" /\ val.fault = "none") =>
    /\ (val.runnerCalls = 0) <=> HasFatalCode(val.tsc.output)
    /\ HasFatalCode(val.tsc.output) => ~val.result.success

\* the runner was invoked although the compiler printed a TS2300 line
C14_Witness ==
  /\ val.pc = "returned"
  /\ val.fault = "none"
  /\ val.runnerCalls = 1
  /\ val.tsc.output = {TscLine("TS2300", {"TS2304"})}

ScanJobsOf(id) == {k \in scanKeys : k[1] = id}

Enqueuers(id) == {r \in ReqIds : req[r].adds = 1 /\ req[r].id = id}

\* C15: when a scan is enqueued twice for the same repository (trigger scan
\* twice, or add repo followed by trigger scan) while the queue still knows
\* the first job's key, exactly one scan job is enqueued
C15_TwoEnqueuesOneScanJob ==
  \A id \in RepoIds :
    Cardinality(Enqueuers(id)) >= 2 => Cardinality(ScanJobsOf(id)) = 1

\* add repo followed by trigger scan a millisecond later: two scan jobs
C15_Witness ==
  /\ req[1].kind = "addRepo" /\ req[1].adds = 1
  /\ req[2].kind = "scanRepo" /\ req[2].adds = 1 /\ req[2].id = req[1].id
  /\ Cardinality(ScanJobsOf(req[1].id)) = 2

Rows(url) == {row \in repoStore : row.url = url}

Adds(url) ==
  {r \in ReqIds : req[r].kind = "addRepo" /\ req[r].url = url
                    /\ req[r].pc = "done"}

Added(url) == {r \in Adds(url) : req[r].status = "ok"}

C17_ConcurrentAddsReturnTheRepository ==
  \A url \in TrackedUrls :
    /\ Cardinality(Rows(url)) <= 1
    /\ \A r \in Adds(url) :
         req[r].hasDeps = "present" =>
           /\ req[r].status = "ok"
           /\ \E row \in Rows(url) : row.id = req[r].id
    /\ Cardinality({r \in Adds(url) : req[r].adds = 1}) <= 1

\* two interleaved requests for one url: the first is answered with the
\* repository, the second with the failure of its insert
C17_Witness ==
  /\ req[1].kind = "addRepo" /\ req[1].status = "ok" /\ req[1].saves = 1
  /\ req[2].kind = "addRepo" /\ req[2].url = req[1].url
  /\ req[2].hasDeps = "present" /\ req[2].status = "error"
  /\ Cardinality(Rows(req[1].url)) = 1

\* C18: the stored lastCoverageReport of a repository is null or equal, in
\* full, to the report of one scan run of that repository that saved it;
\* after two concurrent scans it is the report of one of them
C18_ReportIsOneScansResult ==
  \A row \in repoStore :
    \/ row.lastCoverageReport.isNull
    \/ \E k \in ScanJobs :
         /\ k[1] = row.id
         /\ scan[k].saves = 1
         /\ scan[k].coverage = row.lastCoverageReport

\* two scans of one repository ran at the same time, measured different
\* reports and both saved
C18_Witness ==
  /\ scan[ScanJob(1, 0)].pc = "completed" /\ scan[ScanJob(1, 0)].saves = 1
  /\ scan[ScanJob(1, 1)].pc = "completed" /\ scan[ScanJob(1, 1)].saves = 1
  /\ scan[ScanJob(1, 0)].coverage # scan[ScanJob(1, 1)].coverage
  /\ \E row \in repoStore : row.lastCoverageReport = scan[ScanJob(1, 0)].coverage

\* C19: a scan run in which clone or scanCoverage failed saves nothing,
\* re-throws the error to the queue, and calls cleanup once after a
\* scanCoverage failure and not at all after a clone failure
C19_FailedScanLeavesRepoAndCleansClone ==
  \A k \in ScanJobs :
    (scan[k].failedAt # "nowhere"
       /\ scan[k].pc \in {"completed", "failed", "waiting"}) =>
      /\ scan[k].pc # "completed"
      /\ scan[k].rethrown
      /\ scan[k].saves = 0
      /\ scan[k].cleanups = IF scan[k].failedAt = "scanCoverage" THEN 1 ELSE 0

\* one run failed in scanCoverage and cleaned up, another failed in the
\* clone and did not, and the repository is still unmeasured
C19_Witness ==
  /\ scan[ScanJob(1, 0)].pc = "failed"
  /\ scan[ScanJob(1, 0)].failedAt = "scanCoverage"
  /\ scan[ScanJob(1, 0)].cleanups = 1
  /\ scan[ScanJob(1, 1)].pc = "failed"
  /\ scan[ScanJob(1, 1)].failedAt = "cloneRepository"
  /\ scan[ScanJob(1, 1)].cleanups = 0
  /\ repoStore = {createTracked(1, "https://github.com/o/r")}

MissingField(q) ==
  \/ q.kind = "addRepo" /\ ~Truthy(q.url)
  \/ q.kind = "createJob" /\ (~Truthy(q.url) \/ ~Truthy(q.file))

Stores == <<repoStore, scanKeys, scanQueue, jobStore, queue>>

\* C20: a rejected command leaves the stores and both queues as they were:
\* add repo with missing dependencies is rejected having saved and enqueued
\* nothing, trigger scan for an unknown id is rejected having enqueued
\* nothing, and add repo or create job with a missing field is rejected
\* without a service call
C20_RejectedCommandChangesNothing ==
  /\ [](\A r \in ReqIds :
          /\ req[r].status = "rejected" => req[r].saves = 0 /\ req[r].adds = 0
          /\ req[r].hasDeps = "missing" =>
               req[r].status = "rejected" /\ req[r].saves = 0
          /\ MissingField(req[r]) =>
               /\ req[r].status = "rejected"
               /\ ~req[r].called
               /\ req[r].checks = 0)
  /\ [][\A r \in ReqIds :
          (req'[r].status = "rejected" /\ req[r].status # "rejected")
            => UNCHANGED Stores]_vars

\* the three rejections: missing dependencies, unknown repo id, missing field
C20_Witness ==
  /\ req[1].kind = "addRepo" /\ req[1].hasDeps = "missing"
  /\ req[1].status = "rejected"
  /\ req[2].kind = "scanRepo" /\ req[2].status = "rejected"
  /\ req[3].kind = "createJob" /\ ~Truthy(req[3].file)
  /\ req[3].status = "rejected"
  /\ repoStore = {} /\ scanQueue = <<>> /\ jobStore = <<>> /\ queue = <<>>

QueueEntries(j) == {i \in 1..Len(queue) : queue[i] = j}

\* C21: in every reachable state each job stored with status QUEUED has
\* exactly one improve queue entry that is waiting or being processed, also
\* when the enqueue step fails after the job was saved
C21_QueuedJobHasOneQueueEntry ==
  \A j \in DOMAIN jobStore :
    jobStore[j].status = QUEUED =>
      Cardinality(QueueEntries(j)) + (IF pc[j] # "idle" THEN 1 ELSE 0) = 1

\* the create job request ended with the broker's error: the job stays
\* stored as QUEUED and no queue entry exists for it
C21_Witness ==
  \E r \in ReqIds :
    /\ req[r].kind = "createJob"
    /\ req[r].status = "error"
    /\ req[r].id \in DOMAIN jobStore
    /\ jobStore[req[r].id].status = QUEUED
    /\ QueueEntries(req[r].id) = {}
    /\ \A s \in ReqIds : ~InFlight(s)

\* C22: runCommand yields exactly one outcome, fixed by the first of the
\* child's close event, its error event and the timer: close with code 0
\* gives success, any other close gives failure, both with the trimmed
\* output; the timer kills the child and gives failure with the output so
\* far and the TIMEOUT marker; an error gives failure with its message;
\* later events do not change the outcome, and the call always settles
C22_RunCommandSettlesOnce ==
  /\ [](cmd.first = "none" <=> cmd.outcome = Unsettled)
  /\ [](cmd.first = "close" =>
          cmd.outcome = [success |-> cmd.code = 0, output |-> trim(cmd.output)])
  /\ [](cmd.first = "timeout" =>
          /\ cmd.killed
          /\ ~cmd.outcome.success
          /\ cmd.outcome.output # <<>>
          /\ cmd.outcome.output[Len(cmd.outcome.output)] = TIMEOUT
          /\ IsPrefix(SubSeq(cmd.outcome.output, 1, Len(cmd.outcome.output) - 1),
                      cmd.output))
  /\ [](cmd.first = "error" =>
          cmd.outcome = [success |-> FALSE, output |-> <<ErrMessage>>])
  /\ [][cmd.outcome # Unsettled => cmd'.outcome = cmd.outcome]_vars
  /\ <>(cmd.outcome # Unsettled)

\* the timer fired first and the close event of the killed child came after
C22_Witness ==
  /\ cmd.first = "timeout"
  /\ cmd.closed
  /\ cmd.resolves = 2
  /\ cmd.outcome = [success |-> FALSE, output |-> <<"text", TIMEOUT>>]

\* the commands of a scan that execute code or scripts of the cloned
\* repository: the installation of its dependencies and its test run
RunsRepositoryCode(command) == command.what \in {"install", "jest"}

\* C23: every command that executes code or scripts of a cloned repository
\* goes through the container; run-on-host is never used for one
C23_RepositoryCodeRunsInContainer ==
  \A i \in 1..Len(cov.commands) :
    RunsRepositoryCode(cov.commands[i]) => cov.commands[i].via = "container"

\* a scan returned after installing the dependencies and running the
\* repository's tests on the host
C23_Witness ==
  /\ cov.pc = "returned"
  /\ cov.commands = <<executeCommand("install"), executeCommand("jest")>>

\* a file the canonical exclusion set names: in an excluded directory, or
\* with a name one of the patterns `*<tail>` matches
Excluded(p) ==
  \/ \E i \in 1..Len(p.dirs) : p.dirs[i] \in SKIP_DIRS
  \/ \E tail \in SKIP_SUFFIXES : EndsWith(p.name, tail)

\* C24: every FileCoverage entry scanCoverage returns, from the summary or
\* from the fallback walk, has 0 <= linesCoverage <= 100 and a path the
\* exclusion set does not name, whatever coverage-summary.json holds
C24_EntriesInRangeAndNotExcluded ==
  cov.pc = "returned" =>
    \A r \in cov.results :
      /\ r.linesCoverage.kind = "number"
      /\ 0 <= r.linesCoverage.n /\ r.linesCoverage.n <= 100
      /\ ~Excluded(r.filePath)

\* a scan returned an entry at 250%
C24_Witness ==
  /\ cov.pc = "returned"
  /\ FileCoverage(Path(<<"src">>, SvcTs), Pct("number", 250)) \in cov.results

\* C25: scanCoverage returns the fallback (every surviving source file at
\* 0%) exactly when there is no summary or no entry of the summary survives
\* the filter, and the measured entries in every other run that does not
\* fail; a test run that exits with code 1 is no scan error
C25_FallbackExactlyWithoutEntries ==
  /\ cov.pc = "returned" =>
       /\ cov.fallback <=>
            \/ cov.summary.kind = "absent"
            \/ ParsedResults(cov.summary.entries) = {}
       /\ cov.results = IF cov.fallback
                          THEN FallbackResults(cov.tree)
                          ELSE ParsedResults(cov.summary.entries)
  /\ cov.pc = "threw" =>
       \/ cov.install = "fails"
       \/ cov.jest = "fatal"
       \/ cov.summary.kind = "unparseable"

\* the tests failed with exit code 1 and the measured percentages are
\* returned all the same
C25_Witness ==
  /\ cov.pc = "returned"
  /\ cov.jest = "exit 1"
  /\ ~cov.fallback
  /\ cov.results = {FileCoverage(Path(<<"src">>, SvcTs), Pct("number", 50))}

\* C26: a delivery whose job id has no row ends by returning normally; the
\* run writes nothing to the store and calls neither the repository host
\* (no permission check, clone or cleanup) nor the generator.
C26_UnknownJobIsNoOp ==
  /\ [](\A j \in JobIds : j \notin DOMAIN jobStore =>
          /\ pc[j] \in {"idle", "findById", "done"}
          /\ events[j] = <<>>
          /\ localRepoPath[j] = NoPath
          /\ thrown[j] = Undefined)
  /\ [][\A j \in JobIds :
          j \notin DOMAIN jobStore /\ pc[j] # "idle" /\ pc'[j] # pc[j]
            => jobStore' = jobStore /\ cloneDirs' = cloneDirs /\ gen' = gen]_vars

C26_Witness ==
  \E j \in JobIds : /\ j \notin DOMAIN jobStore
                    /\ deliveries[j] = 1
                    /\ pc[j] = "done"

\* C27: every failure inside a run (permission check, clone, source-file
\* check, generation, push, pull-request creation) is caught: the job is
\* persisted as FAILED, execute returns and process() resolves; a run ends
\* in no other way than by process() resolving, so a job-local failure
\* never makes the queue retry the job.
C27_FailuresAreCaught ==
  /\ [](\A j \in JobIds :
          (pc[j] \in {"finally", "done"} /\ thrown[j] # Undefined)
            => Stored(j) /\ jobStore[j].status = FAILED)
  /\ [][\A j \in JobIds :
          (pc[j] # "idle" /\ pc'[j] = "idle") => pc[j] = "done"]_vars
  /\ \A j \in JobIds : (pc[j] = "catch") ~> (pc[j] = "idle")

\* a push that failed has been recorded and the run has returned
C27_Witness ==
  \E j \in JobIds :
    /\ pc[j] = "done"
    /\ thrown[j] = MsgHost
    /\ Occurs(events[j], PUSHING)
    /\ jobStore[j].status = FAILED

\* the call returned because the validator accepted its last attempt
Succeeded ==
  /\ gen.pc = "returned"
  /\ gen.validations # <<>>
  /\ gen.validations[Len(gen.validations)].success

\* C28: when the validator accepts attempt k, the call renames the
\* verification file over the target and returns with no further CLI or
\* validator call: the target then holds the code of attempt k and the
\* verification file is gone.
C28_SuccessRenamesAndReturns ==
  /\ [](Succeeded =>
          LET k == Len(gen.validations) IN
            /\ gen.cliCalls = k
            /\ \A i \in 1..(k - 1) : ~gen.validations[i].success
            /\ files[gen.suffix] = GeneratedCode(k)
            /\ files[tempTestFilePath(gen.suffix)] = Absent)
  /\ [][Succeeded => gen' = gen /\ files' = files]_vars

\* a call that replaced an existing test file on its second attempt
C28_Witness ==
  /\ Succeeded
  /\ Len(gen.validations) = 2
  /\ gen.before = OldTest
  /\ files[gen.suffix] = GeneratedCode(2)

\* C30: the prompt of attempt 1 shows no prior error; the prompt of every
\* attempt n >= 2 shows the error text the validator returned in attempt
\* n - 1, which is not empty, and no older one.
C30_PromptCarriesLastError ==
  \A n \in 1..Len(gen.prompts) :
    IF n = 1
      THEN gen.prompts[n] = <<>>
      ELSE /\ ~gen.validations[n - 1].success
           /\ gen.validations[n - 1].error # EmptyString
           /\ gen.prompts[n] = <<"LAST VALIDATION ATTEMPT FAILED WITH ERROR:",
                                 gen.validations[n - 1].error>>

\* a third prompt written after two different validator errors
C30_Witness ==
  /\ Len(gen.prompts) = 3
  /\ gen.validations[1].error # gen.validations[2].error

C31_NoScratchFileAfterReturn ==
  val.pc = "returned" => val.scratch = {}

\* a successful validation has returned and its tsconfig is still there
C31_Witness ==
  /\ val.pc = "returned"
  /\ val.result.success
  /\ val.fault = "none"
  /\ TsconfigValidation \in val.scratch

\* the runner's output holds a coverage map in which the source file's
\* measured coverage meets the target
MapMeetsTarget ==
  /\ val.jest.payload = "map"
  /\ val.jest.keyFound
  /\ val.jest.stats.kind # "null"
  /\ Percentage(val.jest.stats).n
       >= val.targetCoverage * Percentage(val.jest.stats).d

\* C37: once the runner has run, the verdict of validateTest follows from
\* the coverage map and the measured coverage alone, not from the runner's
\* exit status: a run that exits non-zero and still emits a coverage map
\* in which the source file meets the target returns success = true.
C37_VerdictIgnoresExitStatus ==
  (val.pc = "returned" /\ val.fault = "none" /\ val.runnerCalls = 1)
    => (val.result.success <=> MapMeetsTarget)

\* a failing test run whose coverage map meets an 80% target is accepted
C37_Witness ==
  /\ val.pc = "returned"
  /\ val.fault = "none"
  /\ ~val.jest.success
  /\ val.targetCoverage = DefaultTargetCoverage
  /\ MapMeetsTarget
  /\ val.result.success

\* C38: updateStatus changes status and updatedAt; it sets errorMessage and
\* prLink only to a non-empty value, never clears them, and leaves id,
\* repositoryUrl, filePath, targetCoverage and createdAt as they were: a
\* message or link recorded once stays recorded through every later
\* transition.
C38_UpdateStatusFrame ==
  [][/\ ent'.id = ent.id
     /\ ent'.repositoryUrl = ent.repositoryUrl
     /\ ent'.filePath = ent.filePath
     /\ ent'.targetCoverage = ent.targetCoverage
     /\ ent'.createdAt = ent.createdAt
     /\ ent'.errorMessage # ent.errorMessage => Truthy(ent'.errorMessage)
     /\ ent'.prLink # ent.prLink => Truthy(ent'.prLink)
     /\ Truthy(ent.errorMessage) => Truthy(ent'.errorMessage)
     /\ Truthy(ent.prLink) => Truthy(ent'.prLink)
     /\ ent' # ent => ent'.updatedAt = now]_vars

\* a job that failed, got a link, and was moved on with neither argument
C38_Witness ==
  /\ ent.status = CLONING
  /\ ent.errorMessage = MsgHost
  /\ ent.prLink = HtmlUrl
  /\ ent.updatedAt > ent.createdAt

\* C36: whenever generateTest fails, for whatever reason and in whichever
\* attempt, the verification file is absent from the clone when the call
\* returns.
C36_NoVerificationFileAfterFailure ==
  gen.pc = "threw" => files[tempTestFilePath(gen.suffix)] = Absent

\* the CLI exited non-zero in attempt 2: the call has failed and the code
\* the validator rejected in attempt 1 is still at the verification path
C36_Witness ==
  /\ gen.pc = "threw"
  /\ gen.cliCalls = 2
  /\ gen.error = MsgCli("non-zero exit")
  /\ files[VerificationSuffix] = GeneratedCode(1)

\* C32: a summary entry whose real path lies outside the clone is
\* discarded: every entry of a report that was read from the summary comes
\* from an entry inside the clone, under that entry's own path.
C32_EscapedEntriesDiscarded ==
  (cov.pc = "returned" /\ ~cov.fallback) =>
    \A r \in cov.results :
      \E e \in cov.summary.entries :
        /\ e.inside
        /\ r = FileCoverage(e.path, linesCoverage(e.pct))

\* the one entry of the summary lies outside the clone and is reported as
\* src/svc.ts at 50%
C32_Witness ==
  /\ cov.pc = "returned"
  /\ cov.summary =
       Summary({Entry(FALSE, TRUE, Path(<<>>, SvcTs), Pct("number", 50))})
  /\ cov.results = {FileCoverage(Path(<<"src">>, SvcTs), Pct("number", 50))}

\* what the walker and the post-filter exclude: a skipped directory on the
\* path, or a name one of the compiled regexes matches
RegexExcluded(p) ==
  \/ \E i \in 1..Len(p.dirs) : p.dirs[i] \in SKIP_DIRS
  \/ SkippedFile(p.name)

\* the TypeScript files a call meets, in the clone and in the summary
FilesMet ==
  {p \in cov.tree \cup {rel(e) : e \in cov.summary.entries} : IsTs(p.name)}

\* C33: the walker and the post-filter exclude a file exactly when the
\* glob patterns of collectCoverageFrom exclude it: the compiled regexes
\* and the `!**/<pattern>` globs name the same files.
C33_RegexesAgreeWithGlobs ==
  \A p \in FilesMet : RegexExcluded(p) <=> Excluded(p)

\* the fallback walk has left out src/add.ts, which no glob excludes
C33_Witness ==
  /\ cov.pc = "returned"
  /\ cov.fallback
  /\ Path(<<"src">>, AddTs) \in cov.tree
  /\ ~Excluded(Path(<<"src">>, AddTs))
  /\ FileCoverage(Path(<<"src">>, AddTs), Pct("number", 0)) \notin cov.results

C35_PrOnlyAfterValidatedTest ==
  \A j \in JobIds :
    /\ Occurs(events[j], PR_CREATED) => Occurs(events[j], "validated")
    /\ Occurs(events[j], "skipped")
         => /\ ~Occurs(events[j], "commitAndPushChanges")
            /\ ~Occurs(events[j], "createPullRequest")

\* the job for src/index.ts is PR_CREATED and its run generated nothing
C35_Witness ==
  \E j \in JobIds :
    /\ pc[j] = "done"
    /\ Stored(j)
    /\ jobStore[j].filePath = "src/index.ts"
    /\ jobStore[j].status = PR_CREATED
    /\ Occurs(events[j], "skipped")
    /\ Occurs(events[j], "createPullRequest")

====
